---- MODULE Spec2Model ----
(***************************************************************************)
(* Dashie dashboard: the D-pad navigation / focus state machine            *)
(* (js/core/navigation.js, js/core/state.js, js/ui/grid.js) and the        *)
(* jwt-auth edge function (supabase/functions/jwt-auth/index.ts).          *)
(*                                                                         *)
(* The browser side is single threaded: every handler runs to completion.  *)
(* What a handler defers (a dynamic import().then callback, a setTimeout)  *)
(* is kept in the bag `pending` and runs later as a step of its own, in    *)
(* any order relative to further input.                                    *)
(***************************************************************************)
EXTENDS Integers, Sequences, FiniteSets, Bags, TLC

VARIABLES
  currentMain,        \* state.currentMain
  focus,              \* state.focus
  selectedCell,       \* state.selectedCell (Null or a widget element)
  isAsleep,           \* state.isAsleep
  confirmDialog,      \* state.confirmDialog is set
  highlightTimer,     \* duration of the pending inactivity timer, 0 = none pending
  isHighlightVisible, \* navigation.js isHighlightVisible
  highlightsHidden,   \* body has class "highlights-hidden"
  sidebarExpanded,    \* elements.sidebar has class "expanded"
  pending,            \* bag of deferred callbacks (import().then, setTimeout)
  posted,             \* messages posted to widget iframes by the last step
  selectedClass,      \* the widgets and menu items of the document with class "selected"
  focusUpdated,       \* updateFocus has run past its guard since the page loaded
  observeClasses,     \* whether selectedClass and focusUpdated are followed in this
                      \* behaviour; fixed from the start
  layout,             \* state.js widgets: the array with the fields of each widget
  observeLayout,      \* whether layout is followed in this behaviour; fixed from
                      \* the start
  escaped             \* escapes posted to the iframe of selectedCell while it has been
                      \* selectedCell: "no" none, "yes" one since Enter last selected it,
                      \* "stale" one, but Enter has selected the same element again since

navVars == <<currentMain, focus, selectedCell, isAsleep, confirmDialog, highlightTimer,
             isHighlightVisible, highlightsHidden, sidebarExpanded, pending, posted,
             selectedClass, focusUpdated, observeClasses, layout, observeLayout,
             escaped>>

\* the jwt-auth edge function: the database it works on and its last exchange
VARIABLES
  now,                    \* the clock, in minutes
  user_auth_tokens,       \* table user_auth_tokens: auth_user_id -> tokens
  user_settings,          \* table user_settings: auth_user_id -> row
  access_control_config,  \* table access_control_config: key -> value
  beta_whitelist,         \* table beta_whitelist: email -> row
  request,                \* the request served last
  response,               \* its response: the HTTP status and the JSON body
  upstream,               \* the call to the OAuth provider's refresh endpoint it made
  accessCheck,            \* what checkUserAccess returned to it
  lastSaved,              \* auth_user_id -> the settings of the last successful save
  auth_users,             \* auth.users: the emails that have an auth user
  user_profiles,          \* table user_profiles: auth_user_id -> row
  steps                   \* the calls the request served last made, in order

brokerVars == <<now, user_auth_tokens, user_settings, access_control_config,
                beta_whitelist, request, response, upstream, accessCheck,
                lastSaved, auth_users, user_profiles, steps>>

\* what only the entry of the edge function writes
serveVars == <<auth_users, user_profiles, steps>>

\* invocations of the edge function that run at the same time
VARIABLES
  inflight,     \* the invocations since the database was last at rest, in the order
                \* of their reads: the request, the row it read, whether and when
                \* it has written and answered
  serialBase    \* table user_auth_tokens when it was last at rest

flightVars == <<inflight, serialBase>>

FlightInit ==
  /\ inflight = <<>>
  /\ serialBase = <<>>

\* GooglePhotosPickerClient: one call of makePickerRequest
VARIABLES
  pickerPc,     \* where the call is: "idle", "loop", "returned" or "thrown"
  attempt,      \* the loop variable of makePickerRequest
  trail,        \* the iterations of the loop so far: the attempt, whether it
                \* fetched, the status it got (0: none), the wait before the next
  refreshes,    \* calls of authManager.refreshGoogleAccessToken in this call
  thrown        \* the status of the error the call threw (0: an error without)

pickerVars == <<pickerPc, attempt, trail, refreshes, thrown>>

PickerInit ==
  /\ pickerPc = "idle"
  /\ attempt = 0
  /\ trail = <<>>
  /\ refreshes = 0
  /\ thrown = 0

\* PickerSessionManager and the picker sessions of the Picker API
VARIABLES
  currentSession,   \* this.currentSession: none, or one with sessionId and status
  selectedPhotos,   \* this.selectedPhotos: none ([]), or the photos of one session
  albumInfo,        \* this.albumInfo: none, or one with the sessionId it names
  localStorage,     \* what saveState has stored of the three
  checks,           \* the calls of checkSessionStatus that wait for a response
  creating,         \* a call of startAlbumSelection waits for its session
  mediaItemsSet,    \* the sessions in which the user has finished picking
  nextSessionId,    \* the id the API gives the next session
  reported,         \* the sessions a poll of which has reported mediaItemsSet
  fetchedFor,       \* the sessions whose photos a call has fetched
  completedIds,     \* the sessions that have had status "completed"
  lastCall,         \* the last call of checkSessionStatus: the status it found
                    \* and whether it sent a request
  pollingInterval,  \* this.pollingInterval: 0 (none), or the id setInterval gave
  intervals,        \* the intervals of the page that have not been cleared
  nextIntervalId,   \* the id setInterval gives next
  invoked,          \* the bag of sessions onPhotosSelected and
                    \* onSelectionComplete were invoked for
  lastStore,        \* the last photos stored: the session the call polled, the
                    \* session they were fetched for, the session completed (0: none)
  observeCalls      \* whether reported, fetchedFor, completedIds, lastCall, invoked
                    \* and lastStore are followed in this behaviour; fixed from
                    \* the start

sessionVars == <<currentSession, selectedPhotos, albumInfo, localStorage, checks,
                 creating, mediaItemsSet, nextSessionId, reported, fetchedFor,
                 completedIds, lastCall, pollingInterval, intervals, nextIntervalId,
                 invoked, lastStore, observeCalls>>

ManagerInit ==
  /\ currentSession = <<>>
  /\ selectedPhotos = <<>>
  /\ albumInfo = <<>>
  /\ localStorage = [currentSession |-> <<>>, selectedPhotos |-> <<>>, albumInfo |-> <<>>]
  /\ checks = EmptyBag
  /\ creating = FALSE
  /\ mediaItemsSet = {}
  /\ nextSessionId = 1
  /\ reported = {}
  /\ fetchedFor = {}
  /\ completedIds = {}
  /\ lastCall = [found |-> "not_called", sent |-> FALSE]
  /\ pollingInterval = 0
  /\ intervals = {}
  /\ nextIntervalId = 1
  /\ invoked = EmptyBag
  /\ lastStore = [polled |-> 0, fetched |-> 0, into |-> 0]

SessionInit == ManagerInit /\ observeCalls = TRUE

\* main.js: the startup sequence and what it finds in window
VARIABLES
  startupPc,      \* where initializeApp is
  initState,      \* main.js initState
  serviceChecks,  \* the checks object of ensureServicesReady
  servicesReady,  \* what ensureServicesReady returned: "none" before it has
  triggered,      \* window.dashieAuth.triggerDataLoading has been called
  env,            \* window: which auth system there is, whether it is
                  \* authenticated and has a Google access token, whether
                  \* window.jwtAuth reports ready, whether window.dataManager is set
  seen,           \* what each gate found when it looked
  overlayVisible  \* the loading overlay is shown

startupVars == <<startupPc, initState, serviceChecks, servicesReady, triggered, env, seen,
                 overlayVisible>>

PendingInitState ==
  [auth |-> "pending", jwt |-> "pending", tokens |-> "pending", settings |-> "pending",
   widgets |-> "pending", servicesReady |-> "pending"]

NoChecks == [auth |-> FALSE, jwt |-> FALSE, token |-> FALSE, dataManager |-> FALSE]

NothingSeen ==
  [authenticated |-> FALSE, googleToken |-> FALSE, ensureAuth |-> FALSE,
   jwtReady |-> FALSE, accessToken |-> FALSE, dataManager |-> FALSE]

StartupInit ==
  /\ startupPc = "waitForAuthentication"
  /\ initState = PendingInitState
  /\ serviceChecks = NoChecks
  /\ servicesReady = "none"
  /\ triggered = FALSE
  /\ env = [authSystem |-> "none", authenticated |-> FALSE, googleToken |-> FALSE,
            jwtReady |-> FALSE, dataManager |-> FALSE]
  /\ seen = NothingSeen
  /\ overlayVisible = FALSE

\* settings.js: the settings and where they are kept
VARIABLES
  appSettings,      \* settings.js settings: the module's settings object
  dashieSettings,   \* localStorage item 'dashie-settings': none, the object
                    \* stored as JSON, or "corrupt" for text that does not parse
  cloudSettings,    \* the settings Supabase holds for the user: none or an object
  currentTheme,     \* what getCurrentTheme returns
  supabaseStorage,  \* a SimpleSupabaseStorage instance has been created
  settingsCall      \* the last call of loadSettings or saveSettings: which, where
                    \* it is, whether the cloud failed it, how it ended

prefsVars == <<appSettings, dashieSettings, cloudSettings, currentTheme, supabaseStorage,
               settingsCall>>

defaultSettings == [theme |-> "dark", photoTransitionTime |-> 15]

NoSettingsCall ==
  [fn |-> "none", pc |-> "idle", cloud |-> "none", local |-> "none", ended |-> "none"]

PrefsInit ==
  /\ appSettings = defaultSettings
  /\ dashieSettings = [kind |-> "none"]
  /\ cloudSettings = <<>>
  /\ currentTheme = "dark"
  /\ supabaseStorage = FALSE
  /\ settingsCall = NoSettingsCall

\* auth-manager.js: the AuthManager of the page
VARIABLES
  authPc,                \* "init": init awaits Cognito; "idle"; "signOut": signOut
                         \* awaits the remote sign-out
  currentUser,           \* this.currentUser is set
  isSignedIn,            \* this.isSignedIn
  googleToken,           \* this.googleAccessToken is set
  pickerSessionManager,  \* this.pickerSessionManager is set
  refreshing,            \* a call of refreshGoogleAccessToken awaits Cognito
  signOutEnded           \* how the last signOut ended: "none", "signedOut" (the
                         \* remote sign-out resolved) or "failed" (it threw)

authVars == <<authPc, currentUser, isSignedIn, googleToken, pickerSessionManager,
              refreshing, signOutEnded>>

AuthInit ==
  /\ authPc = "init"
  /\ currentUser = FALSE
  /\ isSignedIn = FALSE
  /\ googleToken = FALSE
  /\ pickerSessionManager = FALSE
  /\ refreshing = FALSE
  /\ signOutEnded = "none"

\* settings.js: the sleep timer
VARIABLES
  sleepTime,          \* settings.sleepTime: hour and minute
  wakeTime,           \* settings.wakeTime
  currentTime,        \* what getCurrentTime returns
  sleepTimerEnabled,  \* what isSleepTimerEnabled returns
  requested,          \* what the last check of the interval asked for: "sleep"
                      \* (enterSleepMode), "wake" (wakeUp) or "none"
  checkTurn           \* flips each time the interval of initializeSleepTimer fires

sleepVars == <<sleepTime, wakeTime, currentTime, sleepTimerEnabled, requested, checkTurn>>

SleepInit ==
  /\ sleepTime = [hour |-> 21, minute |-> 30]
  /\ wakeTime = [hour |-> 6, minute |-> 30]
  /\ currentTime = [hour |-> 0, minute |-> 0]
  /\ sleepTimerEnabled = TRUE
  /\ requested = "none"
  /\ checkTurn = FALSE

\* settings-d-pad-nav.js: the SimplifiedNavigation of the settings modal
VARIABLES
  dom,                \* the overlay: its enabled tab buttons in document order and
                      \* the group titles of each tab's panel; fixed from the start
  focusIndex,         \* this.focusIndex
  focusableElements,  \* this.focusableElements
  collapsedGroups,    \* this.collapsedGroups
  currentTab,         \* this.currentTab, the tab whose panel is active
  isEditingText,      \* this.isEditingText
  activeElement,      \* the id of document.activeElement, "body" for none
  blurListeners,      \* the controls that have a clearEditingFlag blur listener
  isVisible,          \* settingsManager.isVisible: the modal is open
  lastKey             \* the last event when it was a key: the key, what
                      \* handleKeyPress returned and the calls of onCancel it made

modalVars == <<dom, focusIndex, focusableElements, collapsedGroups, currentTab,
               isEditingText, activeElement, blurListeners, isVisible, lastKey>>

SettingsTabs == {"display", "family"}

tabButton(id) == [kind |-> "tab", id |-> id, type |-> "none"]
groupTitle(id) == [kind |-> "title", id |-> id, type |-> "none"]
formControl(id, type) == [kind |-> "control", id |-> id, type |-> type]

\* the form controls in the content of a group
ControlsOf(group) ==
  CASE group = "theme" -> <<formControl("theme-select", "select")>>
    [] group = "sleep" -> <<formControl("sleep-time", "time"),
                            formControl("resleep-delay", "number")>>
    [] group = "family-info" -> <<formControl("family-name", "text")>>
    [] OTHER -> <<>>

\* the overlays: two tabs with groups, one tab without groups, nothing at all
Doms ==
  {[tabs |-> <<"display", "family">>,
    panels |-> [t \in SettingsTabs |->
                  IF t = "display" THEN <<"theme", "sleep">> ELSE <<"family-info">>]],
   [tabs |-> <<"display">>, panels |-> [t \in SettingsTabs |-> <<>>]],
   [tabs |-> <<>>, panels |-> [t \in SettingsTabs |-> <<>>]]}

RECURSIVE contentElements(_, _)
contentElements(groups, collapsed) ==
  IF groups = <<>> THEN <<>>
  ELSE LET group == Head(groups)
       IN <<groupTitle(group)>>
          \o (IF group \in collapsed THEN <<>> ELSE ControlsOf(group))
          \o contentElements(Tail(groups), collapsed)

\* [...tabs, ...contentElements] of updateFocusableElements
focusable(d, tab, collapsed) ==
  [i \in 1..Len(d.tabs) |-> tabButton(d.tabs[i])]
    \o contentElements(d.panels[tab], collapsed)

NoKey == [key |-> "none", handled |-> FALSE, cancels |-> 0]

\* the constructor and init
Constructed(d) ==
  /\ dom = d
  /\ focusIndex = 0
  /\ focusableElements = focusable(d, "display", {"theme", "sleep", "family-info"})
  /\ collapsedGroups = {"theme", "sleep", "family-info"}
  /\ currentTab = "display"
  /\ isEditingText = FALSE
  /\ activeElement = "body"
  /\ blurListeners = {}
  /\ isVisible = TRUE
  /\ lastKey = NoKey

ModalInit ==
  Constructed([tabs |-> <<"display", "family">>,
               panels |-> [t \in SettingsTabs |->
                             IF t = "display" THEN <<"theme", "sleep">>
                             ELSE <<"family-info">>]])

moreVars == <<authVars, sleepVars, modalVars>>

MoreInit == AuthInit /\ SleepInit /\ ModalInit

restVars == <<flightVars, pickerVars, sessionVars, startupVars, prefsVars, moreVars>>

RestInit ==
  FlightInit /\ PickerInit /\ SessionInit /\ StartupInit /\ PrefsInit /\ MoreInit

vars == <<navVars, brokerVars, restVars>>

----------------------------------------------------------------------------
(* Bounds *)

\* most callbacks a handler may find deferred when it defers one more
MaxPending == 1

\* the clock stops here
MaxNow == 3

----------------------------------------------------------------------------
(* Constants of the program *)

TIMEOUT_SELECTION == 20000
TIMEOUT_FOCUS == 60000

Dirs == {"up", "down", "left", "right"}

sidebarOptions ==
  << [id |-> "calendar", type |-> "main"],
     [id |-> "map",      type |-> "main"],
     [id |-> "camera",   type |-> "main"],
     [id |-> "reload",   type |-> "system"],
     [id |-> "sleep",    type |-> "system"],
     [id |-> "settings", type |-> "system"],
     [id |-> "exit",     type |-> "system"] >>

\* grid.js renderSidebar: the main entries are numbered from 0, the system
\* entries from mainItems.length
mainItems == SelectSeq(sidebarOptions, LAMBDA item : item.type = "main")

systemItems == SelectSeq(sidebarOptions, LAMBDA item : item.type = "system")

globalIndexes ==
  {index - 1 : index \in 1..Len(mainItems)}
    \cup {index - 1 + Len(mainItems) : index \in 1..Len(systemItems)}

widgets ==
  << [id |-> "header", row |-> 1, col |-> 1, rowSpan |-> 1, colSpan |-> 1],
     [id |-> "clock",  row |-> 1, col |-> 2, rowSpan |-> 1, colSpan |-> 1],
     [id |-> "main",   row |-> 2, col |-> 1, rowSpan |-> 2, colSpan |-> 1],
     [id |-> "agenda", row |-> 2, col |-> 2, rowSpan |-> 1, colSpan |-> 1],
     [id |-> "photos", row |-> 3, col |-> 2, rowSpan |-> 1, colSpan |-> 1] >>

widgetUrls ==
  [calendar |-> "/widgets/dcal/calendar_dcal.html",
   clock |-> "/widgets/clock/clock.html",
   location |-> "/widgets/location/location.html",
   map |-> "/widgets/map/map.html",
   agenda |-> "/widgets/agenda/agenda.html",
   photos |-> "/widgets/photos/photos.html",
   camera |-> "/widgets/camera/camera.html",
   header |-> "/widgets/header/header.html"]

sidebarMapping == [calendar |-> "Calendar", map |-> "Map", camera |-> "Camera"]

\* the widgets array as state.js builds it: url from widgetUrls, focusScale in
\* tenths, no label yet
widgetsAtLoad ==
  [i \in 1..Len(widgets) |->
     widgets[i] @@
     [url |-> IF widgets[i].id = "main" THEN widgetUrls["calendar"]
              ELSE widgetUrls[widgets[i].id],
      label |-> "undefined",
      focusScale |-> <<10, 15, 12, 14, 14>>[i]]]

\* state.selectedCell === null
Null == [row |-> 0, col |-> 0, attached |-> FALSE]

\* the kinds of deferred callback
Kinds ==
  {[k |-> "updateFocus"], [k |-> "handleEnter"], [k |-> "delayEnter"],
   [k |-> "clickSystem"], [k |-> "render"], [k |-> "backClear"], [k |-> "timerClear"]}
  \cup {[k |-> "overlay", row |-> widgets[i].row, col |-> widgets[i].col] : i \in 1..Len(widgets)}

NoPending == EmptyBag

----------------------------------------------------------------------------
(* The state as one record, so that a handler is a composition of steps *)

Cur ==
  [currentMain |-> currentMain, focus |-> focus, selectedCell |-> selectedCell,
   isAsleep |-> isAsleep, confirmDialog |-> confirmDialog,
   highlightTimer |-> highlightTimer, isHighlightVisible |-> isHighlightVisible,
   highlightsHidden |-> highlightsHidden, sidebarExpanded |-> sidebarExpanded,
   pending |-> pending, posted |-> <<>>, selectedClass |-> selectedClass,
   focusUpdated |-> focusUpdated, layout |-> layout, escaped |-> escaped]

Commit(s) ==
  /\ currentMain' = s.currentMain
  /\ focus' = s.focus
  /\ selectedCell' = s.selectedCell
  /\ isAsleep' = s.isAsleep
  /\ confirmDialog' = s.confirmDialog
  /\ highlightTimer' = s.highlightTimer
  /\ isHighlightVisible' = s.isHighlightVisible
  /\ highlightsHidden' = s.highlightsHidden
  /\ sidebarExpanded' = s.sidebarExpanded
  /\ pending' = s.pending
  /\ posted' = s.posted
  /\ selectedClass' = IF observeClasses THEN s.selectedClass ELSE selectedClass
  /\ focusUpdated' = IF observeClasses THEN s.focusUpdated ELSE focusUpdated
  /\ observeClasses' = observeClasses
  /\ layout' = IF observeLayout THEN s.layout ELSE layout
  /\ observeLayout' = observeLayout
  /\ escaped' = s.escaped
  /\ UNCHANGED <<brokerVars, restVars>>

\* setTimeout(cb, ms) / import(...).then(cb)
Defer(s, kd) == [s EXCEPT !.pending = @ (+) SetToBag({kd})]

\* a step is taken only if it leaves at most MaxPending callbacks deferred
Take(s) == BagCardinality(s.pending) <= MaxPending /\ Commit(s)

----------------------------------------------------------------------------
(* state.js *)

setFocus(s, newFocus) == [s EXCEPT !.focus = newFocus]

setSelectedCell(s, cell) ==
  [s EXCEPT !.selectedCell = cell,
            !.escaped = IF cell # Null /\ cell = s.selectedCell /\ @ # "no"
                          THEN "stale" ELSE "no"]

\* the main tile keeps the url it has
setCurrentMainStateOnly(s, mainType) == [s EXCEPT !.currentMain = mainType]

setCurrentMain(s, mainType) ==
  [s EXCEPT !.currentMain = mainType,
            !.layout = [i \in DOMAIN s.layout |->
                          IF s.layout[i].id = "main" /\ mainType \in DOMAIN widgetUrls
                            THEN [s.layout[i] EXCEPT
                                    !.url = widgetUrls[mainType],
                                    !.label = IF mainType \in DOMAIN sidebarMapping
                                                THEN sidebarMapping[mainType] ELSE @]
                            ELSE s.layout[i]]]

findWidget(row, col) ==
  {i \in 1..Len(widgets) : widgets[i].row = row /\ widgets[i].col = col}

----------------------------------------------------------------------------
(* navigation.js: timeout management *)

startHighlightTimer(s) ==
  [s EXCEPT !.highlightTimer =
     IF s.selectedCell # Null THEN TIMEOUT_FOCUS ELSE TIMEOUT_SELECTION]

\* mutant of showHighlights: the highlights are shown and no timer is started
showHighlightsUntimed(s) ==
  [s EXCEPT !.isHighlightVisible = TRUE, !.highlightsHidden = FALSE]

showHighlights(s) ==
  startHighlightTimer([s EXCEPT !.isHighlightVisible = TRUE, !.highlightsHidden = FALSE])

resetHighlightTimer(s) ==
  IF ~s.isHighlightVisible THEN showHighlights(s) ELSE startHighlightTimer(s)

\* iframe.contentWindow.postMessage({action}, "*"): every widget has a url, so
\* its tile holds an iframe; the iframe of a tile that renderGrid has removed
\* from the document has no contentWindow
postToWidget(s, cell, action) ==
  IF cell.attached
    THEN [s EXCEPT !.posted = Append(@, [row |-> cell.row, col |-> cell.col, action |-> action]),
                   !.escaped = IF action = "escape" /\ cell = s.selectedCell THEN "yes" ELSE @]
    ELSE s

hideHighlights(s) ==
  LET s1 == [s EXCEPT !.isHighlightVisible = FALSE, !.highlightsHidden = TRUE]
      s2 == IF s1.selectedCell # Null
              THEN Defer(postToWidget(s1, s1.selectedCell, "escape"), [k |-> "timerClear"])
              ELSE s1
  IN IF s2.focus.type = "menu" THEN [s2 EXCEPT !.sidebarExpanded = FALSE] ELSE s2

\* the element a focus designates: the tile at its row and column, or the menu
\* item at its index
focusElements(f) ==
  IF f.type = "grid"
    THEN IF findWidget(f.row, f.col) # {} THEN {f} ELSE {}
    ELSE IF f.index + 1 \in DOMAIN sidebarOptions THEN {f} ELSE {}

updateFocus(s) ==
  IF s.confirmDialog \/ s.isAsleep
    THEN s
    ELSE resetHighlightTimer([s EXCEPT !.sidebarExpanded = (s.focus.type = "menu"),
                                       !.selectedClass = focusElements(s.focus),
                                       !.focusUpdated = TRUE])

sendToWidget(s, action) ==
  IF s.selectedCell = Null
    THEN s
    ELSE resetHighlightTimer(postToWidget(s, s.selectedCell, action))

----------------------------------------------------------------------------
(* navigation.js: navigation logic *)

\* sidebarOptions.findIndex(item => item.id === id), 0-based, -1 when absent
findIndex(id) ==
  LET hits == {i \in 1..Len(sidebarOptions) : sidebarOptions[i].id = id}
  IN IF hits = {} THEN -1 ELSE (CHOOSE i \in hits : \A j \in hits : i <= j) - 1

\* mutant of menuFocusOfCurrentMain: the sidebar is always entered at its first entry
menuFocusFirstEntry(s) == [type |-> "menu", index |-> 0]

\* the focus the sidebar is entered with: the entry of the current main widget
menuFocusOfCurrentMain(s) ==
  LET currentMainIndex == findIndex(s.currentMain)
  IN [type |-> "menu", index |-> IF currentMainIndex >= 0 THEN currentMainIndex ELSE 0]

\* moveFocus, focus on the grid: the new column
gridNewCol(col, dir) ==
  IF dir = "left" THEN (IF col - 1 < 1 THEN 1 ELSE col - 1)
  ELSE IF dir = "right" THEN (IF col + 1 > 2 THEN 2 ELSE col + 1)
  ELSE col

\* mutant of gridNewRow: "down" is not clamped to the last row
gridNewRowUnclamped(row, dir) ==
  IF dir = "up" THEN (IF row - 1 < 1 THEN 1 ELSE row - 1)
  ELSE IF dir = "down" THEN row + 1
  ELSE row

\* moveFocus, focus on the grid: the new row
gridNewRow(row, dir) ==
  IF dir = "up" THEN (IF row - 1 < 1 THEN 1 ELSE row - 1)
  ELSE IF dir = "down" THEN (IF row + 1 > 3 THEN 3 ELSE row + 1)
  ELSE row

\* mutant of normalizeSpanning: the lower half of the main tile is a position of its own
normalizeSpanningNever(newRow, newCol) == newRow

\* the spanning main tile (rows 2-3 of column 1) is always position (2,1)
normalizeSpanning(newRow, newCol) ==
  IF newCol = 1 /\ (newRow = 2 \/ newRow = 3) THEN 2 ELSE newRow

moveFocusGrid(s, dir) ==
  IF dir = "left" /\ s.focus.col = 1
    THEN updateFocus(setFocus(s, menuFocusOfCurrentMain(s)))
    ELSE LET newCol == gridNewCol(s.focus.col, dir)
             newRow == gridNewRow(s.focus.row, dir)
         IN updateFocus(setFocus(s,
              [type |-> "grid", row |-> normalizeSpanning(newRow, newCol), col |-> newCol]))

\* mutant of menuNewIndex: up and down are not clamped
menuNewIndexUnclamped(index, dir) ==
  IF dir = "up" THEN index - 1 ELSE IF dir = "down" THEN index + 1 ELSE index

\* moveFocus, focus on the sidebar: the new index
menuNewIndex(index, dir) ==
  IF dir = "up" THEN (IF index - 1 > 0 THEN index - 1 ELSE 0)
  ELSE IF dir = "down"
    THEN (IF index + 1 < Len(sidebarOptions) - 1 THEN index + 1 ELSE Len(sidebarOptions) - 1)
  ELSE index

moveFocusMenu(s, dir) ==
  IF dir = "right"
    THEN updateFocus(setFocus(s, [type |-> "grid", row |-> 2, col |-> 1]))
    ELSE updateFocus(setFocus(s, [type |-> "menu", index |-> menuNewIndex(s.focus.index, dir)]))

moveFocus(s0, dir) ==
  IF s0.isAsleep \/ s0.confirmDialog
    THEN s0
    ELSE LET s == resetHighlightTimer(s0)
         IN IF s.selectedCell # Null THEN sendToWidget(s, dir)
            ELSE IF s.focus.type = "grid" THEN moveFocusGrid(s, dir)
            ELSE moveFocusMenu(s, dir)

\* the state of the page after window.location.reload(): main.js runs again
Reloaded ==
  [currentMain |-> "calendar", focus |-> [type |-> "grid", row |-> 1, col |-> 1],
   selectedCell |-> Null, isAsleep |-> FALSE, confirmDialog |-> FALSE,
   highlightTimer |-> 0, isHighlightVisible |-> FALSE, highlightsHidden |-> TRUE,
   sidebarExpanded |-> FALSE, pending |-> NoPending, posted |-> <<>>,
   selectedClass |-> {}, focusUpdated |-> FALSE, layout |-> widgetsAtLoad,
   escaped |-> "no"]

\* sleep, settings and exit import modules that are not part of the navigation
\* state machine; what they do to state.isAsleep / state.confirmDialog is the
\* actions SetSleepMode and SetConfirmDialog
handleMenuSelection(s, optionId) ==
  IF optionId \in {"calendar", "map", "camera"}
    THEN Defer(setCurrentMain(s, optionId), [k |-> "render"])
  ELSE IF optionId = "reload" THEN Reloaded
  ELSE s

\* handleEnter, focus on the grid: select the widget element at the focus
handleEnterGrid(s) ==
  IF findWidget(s.focus.row, s.focus.col) = {}
    THEN s
    ELSE LET widgetElement == [row |-> s.focus.row, col |-> s.focus.col, attached |-> TRUE]
         IN updateFocus(postToWidget(setSelectedCell(s, widgetElement), widgetElement, "focus"))

handleEnter(s0) ==
  LET s == resetHighlightTimer(s0)
  IN IF s.isAsleep \/ s.confirmDialog
       THEN s
       ELSE LET s1 == IF s.focus.type = "grid" THEN handleEnterGrid(s) ELSE s
            IN IF s1.focus.type = "menu"
                 THEN handleMenuSelection(s1, sidebarOptions[s1.focus.index + 1].id)
                 ELSE s1

handleBack(s) ==
  IF s.isAsleep \/ s.confirmDialog
    THEN s
  ELSE IF s.selectedCell # Null
    THEN Defer(postToWidget(s, s.selectedCell, "escape"), [k |-> "backClear"])
  ELSE hideHighlights(s)

openMenuWithCurrentSelection(s) ==
  IF s.isAsleep \/ s.confirmDialog \/ s.selectedCell # Null
    THEN s
    ELSE updateFocus([setFocus(s, menuFocusOfCurrentMain(s)) EXCEPT !.sidebarExpanded = TRUE])

----------------------------------------------------------------------------
(* grid.js *)

\* elements.grid.innerHTML = "" and one new tile per widget: every element of
\* the old grid, the selected one included, leaves the document
renderGrid(s) ==
  LET s1 == [s EXCEPT !.selectedClass = {e \in @ : e.type # "grid"}]
  IN IF s1.selectedCell # Null
       THEN [s1 EXCEPT !.selectedCell.attached = FALSE]
       ELSE s1

\* elements.sidebar.innerHTML = "" and one new item per sidebar option
renderSidebar(s) == [s EXCEPT !.selectedClass = {e \in @ : e.type # "menu"}]

\* a menu item's listeners return at once in these states
menuItemBlocked(s) == s.confirmDialog \/ s.isAsleep

\* mutant of mouseover: the listener does not return while a widget is focused
mouseoverWhileFocused(s, globalIndex) ==
  IF menuItemBlocked(s)
    THEN s
    ELSE Defer([setFocus(s, [type |-> "menu", index |-> globalIndex])
                  EXCEPT !.sidebarExpanded = TRUE], [k |-> "updateFocus"])

mouseover(s, globalIndex) ==
  IF menuItemBlocked(s) \/ s.selectedCell # Null
    THEN s
    ELSE Defer([setFocus(s, [type |-> "menu", index |-> globalIndex])
                  EXCEPT !.sidebarExpanded = TRUE], [k |-> "updateFocus"])

mouseout(s) ==
  IF menuItemBlocked(s) \/ s.selectedCell # Null
    THEN s
    ELSE IF s.focus.type # "menu" THEN [s EXCEPT !.sidebarExpanded = FALSE] ELSE s

touchstart(s, globalIndex) ==
  IF menuItemBlocked(s) \/ s.selectedCell # Null
    THEN s
    ELSE LET s1 == setFocus(s, [type |-> "menu", index |-> globalIndex])
         IN IF sidebarOptions[globalIndex + 1].type = "system"
              THEN Defer([s1 EXCEPT !.sidebarExpanded = TRUE], [k |-> "updateFocus"])
              ELSE s1

\* a tap: the touch lasted less than 300 ms (a longer touch does nothing)
touchend(s, globalIndex) ==
  IF menuItemBlocked(s) \/ s.selectedCell # Null
    THEN s
    ELSE IF sidebarOptions[globalIndex + 1].type = "system"
           THEN Defer(s, [k |-> "delayEnter"])
           ELSE Defer(s, [k |-> "handleEnter"])

\* a mouse click: e.pointerType is not 'touch' and no touchstart came before
\* (the click that follows a touch only resets the item's touchStartTime)
click(s, globalIndex) ==
  IF menuItemBlocked(s) \/ s.selectedCell # Null
    THEN s
    ELSE LET s1 == setFocus(s, [type |-> "menu", index |-> globalIndex])
         IN IF sidebarOptions[globalIndex + 1].type = "system"
              THEN Defer(s1, [k |-> "clickSystem"])
              ELSE Defer(s1, [k |-> "handleEnter"])

\* the click overlay of widget w; it takes pointer events only while the
\* sidebar is expanded
overlayClick(s, w) ==
  IF s.sidebarExpanded
    THEN LET s1 == [s EXCEPT !.sidebarExpanded = FALSE]
         IN IF s1.focus.type = "menu"
              THEN Defer(s1, [k |-> "overlay", row |-> w.row, col |-> w.col])
              ELSE s1
    ELSE s

----------------------------------------------------------------------------
(* Deferred callbacks *)

\* import('../core/navigation.js').then(({ updateFocus }) => updateFocus())
thenUpdateFocus(s) == updateFocus(s)

\* touchend on a system item: setTimeout(() => handleEnter(), 150)
thenDelayEnter(s) == Defer(s, [k |-> "handleEnter"])

\* click on a system item
thenClickSystem(s) ==
  Defer(updateFocus([s EXCEPT !.sidebarExpanded = TRUE]), [k |-> "handleEnter"])

\* overlay click: return focus to the clicked widget
thenOverlay(s, kd) ==
  updateFocus(setFocus(s, [type |-> "grid", row |-> kd.row, col |-> kd.col]))

\* handleMenuSelection: import('../ui/grid.js').then(...)
thenRender(s) ==
  updateFocus([setFocus(renderSidebar(renderGrid(s)), [type |-> "grid", row |-> 2, col |-> 1])
                 EXCEPT !.sidebarExpanded = FALSE])

\* handleBack: the 10 ms timeout
backClear(s) == updateFocus(showHighlights(setSelectedCell(s, Null)))

\* mutant of timerClear: the timeout callback leaves the selection in place
timerClearKeepsSelection(s) == s

\* hideHighlights: the 10 ms timeout
timerClear(s) == setSelectedCell(s, Null)

runCallback(s, kd) ==
  IF kd.k = "updateFocus" THEN thenUpdateFocus(s)
  ELSE IF kd.k = "handleEnter" THEN handleEnter(s)
  ELSE IF kd.k = "delayEnter" THEN thenDelayEnter(s)
  ELSE IF kd.k = "clickSystem" THEN thenClickSystem(s)
  ELSE IF kd.k = "overlay" THEN thenOverlay(s, kd)
  ELSE IF kd.k = "render" THEN thenRender(s)
  ELSE IF kd.k = "backClear" THEN backClear(s)
  ELSE timerClear(s)

----------------------------------------------------------------------------
(* jwt-auth/index.ts: data *)

Users == {"u1", "u2"}
Emails == {"ann@example.com", "bob@example.com"}
Providers == {"google"}
AccountTypes == {"primary"}

\* times are in minutes: the 5 * 60 * 1000 ms buffer of get_valid_token
BufferTime == 5
\* (expires_in || 3600) seconds
DefaultExpiresIn == 60
\* expires_in as a request or the provider gives it; 0 is a missing one
ExpiresIn == {0, 7}

\* an optional value: null / undefined is None
None == <<>>
Some(x) == <<x>>

\* a settings object: some of these keys, each with a value
SettingsKeys == {"theme", "tokenAccounts"}
SettingsValues == {"v1", "v2"}
SettingsObjects ==
  UNION {[keys -> SettingsValues] : keys \in SUBSET SettingsKeys}

ConfigKeys == {"maintenance_mode", "beta_mode_enabled", "trial_enabled"}
ConfigValues == {"true", "false"}

NoRequest == [operation |-> "none"]
NoResponse == [status |-> 0]
NoUpstream == [called |-> FALSE]
NoAccessCheck == [allowed |-> FALSE, reason |-> "not_checked"]

\* a table with no row
NoRows == <<>>

\* table.upsert(row, { onConflict: key })
Upsert(table, key, row) ==
  [k \in DOMAIN table \cup {key} |-> IF k = key THEN row ELSE table[k]]

\* jsonResponse(data, status)
jsonResponse(data, status) == [status |-> status] @@ data

\* the catch of the main handler: 500, Internal server error
internalError == jsonResponse([error |-> "Internal server error"], 500)

BrokerInit ==
  /\ now = 0
  /\ user_auth_tokens = NoRows
  /\ user_settings = NoRows
  /\ access_control_config = NoRows
  /\ beta_whitelist = NoRows
  /\ request = NoRequest
  /\ response = NoResponse
  /\ upstream = NoUpstream
  /\ accessCheck = NoAccessCheck
  /\ lastSaved = [u \in Users |-> None]
  /\ auth_users = {}
  /\ user_profiles = NoRows
  /\ steps = <<>>

----------------------------------------------------------------------------
(* jwt-auth/index.ts: settings operations *)

\* the copy alone, with no key deleted
safeSettingsKeepsAll(settings) == settings

\* const safeSettings = { ...settings }; delete safeSettings.tokenAccounts
safeSettings(settings) ==
  [k \in DOMAIN settings \ {"tokenAccounts"} |-> settings[k]]

\* handleSaveOperation, then the main handler's response; dbError: the upsert
\* returned an error
handleSaveOperation(table, authUserId, email, settings, dbError) ==
  IF dbError
    THEN [table |-> table, response |-> internalError]
    ELSE [table |-> Upsert(table, authUserId,
                           [email |-> email, settings |-> safeSettings(settings)]),
          response |-> jsonResponse([success |-> TRUE, saved |-> TRUE], 200)]

\* handleLoadOperation, then the main handler's response; dbError: the select
\* returned an error other than PGRST116
handleLoadOperation(table, authUserId, dbError) ==
  IF dbError
    THEN internalError
    ELSE jsonResponse([success |-> TRUE,
                       settings |-> IF authUserId \in DOMAIN table
                                      THEN Some(table[authUserId].settings)
                                      ELSE None], 200)

----------------------------------------------------------------------------
(* Actions *)

MoveFocus(dir) == Commit(moveFocus(Cur, dir))

HandleEnter == Take(handleEnter(Cur))

HandleBack == Take(handleBack(Cur))

OpenMenuWithCurrentSelection == Commit(openMenuWithCurrentSelection(Cur))

MouseOver(i) == Take(mouseover(Cur, i))

MouseOut == Commit(mouseout(Cur))

TouchStart(i) == Take(touchstart(Cur, i))

TouchEnd(i) == Take(touchend(Cur, i))

Click(i) == Take(click(Cur, i))

OverlayClick(w) == Take(overlayClick(Cur, w))

\* state.js setSleepMode, called by the sleep modal and the sleep timer
SetSleepMode(sleeping) == Commit([Cur EXCEPT !.isAsleep = sleeping])

\* state.js setConfirmDialog, called by the exit confirmation
SetConfirmDialog(dialog) == Commit([Cur EXCEPT !.confirmDialog = dialog])

\* the inactivity timer expires
HighlightTimerFires ==
  /\ highlightTimer # 0
  /\ Take(hideHighlights([Cur EXCEPT !.highlightTimer = 0]))

\* a deferred callback runs
RunCallback(kd) ==
  /\ BagIn(kd, pending)
  /\ Take(runCallback([Cur EXCEPT !.pending = @ (-) SetToBag({kd})], kd))

\* the remote control: the exported handlers of navigation.js
KeyInput ==
  \/ \E dir \in Dirs : MoveFocus(dir)
  \/ HandleEnter
  \/ HandleBack
  \/ OpenMenuWithCurrentSelection

\* mouse and touch: the listeners grid.js installs
PointerInput ==
  \/ \E i \in globalIndexes : MouseOver(i)
  \/ MouseOut
  \/ \E i \in globalIndexes : TouchStart(i)
  \/ \E i \in globalIndexes : TouchEnd(i)
  \/ \E i \in globalIndexes : Click(i)
  \/ \E n \in 1..Len(widgets) : OverlayClick(widgets[n])

\* the sleep mode and the exit confirmation
ModalInput ==
  \/ \E sleeping \in BOOLEAN : SetSleepMode(sleeping)
  \/ \E dialog \in BOOLEAN : SetConfirmDialog(dialog)

UserInput == KeyInput \/ PointerInput \/ ModalInput

Scheduled ==
  \/ HighlightTimerFires
  \/ \E kd \in Kinds : RunCallback(kd)

\* the page as main.js leaves it
PageInit ==
  /\ currentMain = Reloaded.currentMain
  /\ focus = Reloaded.focus
  /\ selectedCell = Reloaded.selectedCell
  /\ isAsleep = Reloaded.isAsleep
  /\ confirmDialog = Reloaded.confirmDialog
  /\ highlightTimer = Reloaded.highlightTimer
  /\ isHighlightVisible = Reloaded.isHighlightVisible
  /\ highlightsHidden = Reloaded.highlightsHidden
  /\ sidebarExpanded = Reloaded.sidebarExpanded
  /\ pending = Reloaded.pending
  /\ posted = Reloaded.posted
  /\ selectedClass = Reloaded.selectedClass
  /\ focusUpdated = Reloaded.focusUpdated
  /\ layout = Reloaded.layout
  /\ escaped = Reloaded.escaped

NavInit == PageInit /\ observeClasses = FALSE /\ observeLayout = FALSE

Init == NavInit /\ BrokerInit /\ RestInit

Next == UserInput \/ Scheduled

Spec == Init /\ [][Next]_vars

\* the same dashboard with the "selected" classes of the document followed
DomInit ==
  PageInit /\ observeClasses = TRUE /\ observeLayout = FALSE /\ BrokerInit /\ RestInit

DomSpec == DomInit /\ [][Next]_vars

\* the same dashboard, with the widgets array followed
LayoutInit ==
  PageInit /\ observeClasses = FALSE /\ observeLayout = TRUE /\ BrokerInit /\ RestInit

LayoutSpec == LayoutInit /\ [][Next]_vars

\* the dashboard driven by the remote control alone; a timer that is due fires
\* and a deferred callback runs
LiveNext == KeyInput \/ ModalInput \/ Scheduled

LiveSpec == Init /\ [][LiveNext]_vars /\ WF_vars(Scheduled)

\* every input, and the timers and callbacks of the browser are eventually run
TimedSpec == Init /\ [][Next]_vars /\ WF_vars(Scheduled)

----------------------------------------------------------------------------
(* Claims about the navigation state machine *)

\* C1: whenever the focus is on the grid, its col is in 1..2 and its row in 1..3
C1_GridFocusInBounds ==
  focus.type = "grid" => (focus.col \in 1..2 /\ focus.row \in 1..3)

\* C1 witness: navigation has reached the last row of the last column
C1_Witness ==
  focus = [type |-> "grid", row |-> 3, col |-> 2] /\ isHighlightVisible

\* C2: moveFocus("left") from a grid cell in column 1 (awake, no dialog, no
\* widget focused) puts the focus on the sidebar entry whose id is currentMain
C2_LeftFromCol1EntersMenuAtCurrentMain ==
  [][(/\ MoveFocus("left")
      /\ ~isAsleep /\ ~confirmDialog /\ selectedCell = Null
      /\ focus.type = "grid" /\ focus.col = 1)
     => (/\ focus'.type = "menu"
         /\ focus'.index \in 0..(Len(sidebarOptions) - 1)
         /\ sidebarOptions[focus'.index + 1].id = currentMain)]_vars

\* C2 witness: the sidebar was entered on the entry of a main widget other
\* than the default one
C2_Witness ==
  /\ focus = [type |-> "menu", index |-> 2]
  /\ currentMain = "camera"
  /\ selectedCell = Null /\ sidebarExpanded /\ isHighlightVisible
  /\ pending = NoPending

\* C3: selectedCell is never set while the focus is on the sidebar
C3_NoFocusedWidgetInMenu ==
  ~(selectedCell # Null /\ focus.type = "menu")

\* C3 witness: a widget is focused while the sidebar listeners are live
C3_Witness ==
  /\ selectedCell # Null /\ selectedCell.attached
  /\ focus.type = "grid" /\ ~isAsleep /\ ~confirmDialog

\* C7: selectedCell is null or an element of the rendered grid
C7_SelectedCellInDocument ==
  selectedCell = Null \/ selectedCell.attached

\* C8: once an escape was posted to the focused widget's iframe, no direction
\* is posted to it until the widget is selected again
C8_NoDirectionAfterEscape ==
  ~(escaped = "yes" /\ \E n \in 1..Len(posted) : posted[n].action \in Dirs)

\* C9: handleBack and the inactivity timer post the escape and leave
\* selectedCell alone; the later timeout clears a widget only if an escape was
\* posted to its iframe while it was the selected cell
C9_EscapeBeforeClear ==
  [][/\ (/\ HandleBack \/ HighlightTimerFires
         /\ selectedCell # Null /\ selectedCell.attached
         /\ HandleBack => (~isAsleep /\ ~confirmDialog))
        => (/\ selectedCell' = selectedCell
            /\ \E n \in 1..Len(posted') : posted'[n].action = "escape")
     /\ (/\ RunCallback([k |-> "backClear"]) \/ RunCallback([k |-> "timerClear"])
         /\ selectedCell # Null /\ selectedCell.attached)
        => escaped # "no"]_vars

\* C11: once updateFocus has run, exactly one widget or menu item carries the
\* class "selected", and it is the one state.focus designates
C11_OneSelectedAtFocus ==
  focusUpdated => selectedClass = {focus}

\* C10: unless input keeps arriving, a focused widget is eventually defocused
\* with the highlights hidden
C10_FocusedWidgetTimesOut ==
  \/ []<><<UserInput>>_vars
  \/ [](selectedCell # Null
        => <>(selectedCell = Null /\ ~isHighlightVisible /\ highlightsHidden))

\* C10 witness: the inactivity timer expired on a focused widget, the escape
\* is posted and the clearing timeout is pending
C10_Witness ==
  /\ selectedCell # Null /\ escaped = "yes"
  /\ ~isHighlightVisible /\ highlightsHidden
  /\ highlightTimer = 0
  /\ pending = SetToBag({[k |-> "timerClear"]})

----------------------------------------------------------------------------
(* The edge function: settings *)

Save(u, email, settings, dbError) ==
  LET r == handleSaveOperation(user_settings, u, email, settings, dbError)
  IN /\ user_settings' = r.table
     /\ response' = r.response
     /\ request' = [operation |-> "save", userId |-> u]
     /\ lastSaved' = IF dbError THEN lastSaved ELSE [lastSaved EXCEPT ![u] = Some(settings)]
     /\ upstream' = NoUpstream
     /\ UNCHANGED <<now, user_auth_tokens, access_control_config, beta_whitelist,
                    accessCheck>>
     /\ UNCHANGED <<navVars, serveVars, restVars>>

Load(u, dbError) ==
  /\ response' = handleLoadOperation(user_settings, u, dbError)
  /\ request' = [operation |-> "load", userId |-> u]
  /\ upstream' = NoUpstream
  /\ UNCHANGED <<now, user_auth_tokens, user_settings, access_control_config,
                 beta_whitelist, accessCheck, lastSaved>>
  /\ UNCHANGED <<navVars, serveVars, restVars>>

SettingsNext ==
  \/ \E u \in Users, email \in Emails, settings \in SettingsObjects, dbError \in BOOLEAN :
       Save(u, email, settings, dbError)
  \/ \E u \in Users, dbError \in BOOLEAN : Load(u, dbError)

SettingsSpec == Init /\ [][SettingsNext]_vars

\* C5: a load answered with 200 returns the settings of the user's last
\* successful save without their tokenAccounts key, and null before any save
C5_SaveLoadRoundTrip ==
  [][\A u \in Users :
       (Load(u, FALSE) \/ Load(u, TRUE)) /\ response'.status = 200
       => response'.settings =
            IF lastSaved[u] = None
              THEN None
              ELSE Some([k \in DOMAIN lastSaved[u][1] \ {"tokenAccounts"}
                           |-> lastSaved[u][1][k]])]_vars

\* C5 witness: a load returned settings saved with a tokenAccounts key, while
\* another user has saved nothing
C5_Witness ==
  /\ request = [operation |-> "load", userId |-> "u1"]
  /\ response.status = 200
  /\ lastSaved["u1"] # None
  /\ "tokenAccounts" \in DOMAIN lastSaved["u1"][1]
  /\ "theme" \in DOMAIN lastSaved["u1"][1]
  /\ response.settings = Some([k \in {"theme"} |-> lastSaved["u1"][1][k]])
  /\ lastSaved["u2"] = None

----------------------------------------------------------------------------
(* jwt-auth/index.ts: token operations *)

AccessTokens == {"a1"}
RefreshedTokens == {"n1"}

\* the token data of a store_tokens request; "" is a missing field
TokenData ==
  [access_token : AccessTokens \cup {""}, refresh_token : {"r1", ""},
   expires_in : ExpiresIn]

\* what refreshGoogleToken returns: the provider refused or could not be reached,
\* or it answered with a new access token; expires_in is tokenData.expires_in || 3600
RefreshResults ==
  {[success |-> FALSE]} \cup
  [success : {TRUE}, access_token : RefreshedTokens,
   expires_in : {IF e = 0 THEN DefaultExpiresIn ELSE e : e \in ExpiresIn}]

\* tokenData?.tokens?.[provider]?.[accountType] is there
hasAccount(table, authUserId, provider, accountType) ==
  /\ authUserId \in DOMAIN table
  /\ provider \in DOMAIN table[authUserId]
  /\ accountType \in DOMAIN table[authUserId][provider]

\* { ...tokens, [provider]: { ...tokens[provider] || {}, [accountType]: account } }
withAccount(tokens, provider, accountType, account) ==
  Upsert(tokens, provider,
         Upsert(IF provider \in DOMAIN tokens THEN tokens[provider] ELSE <<>>,
                accountType, account))

\* handleStoreTokensOperation, then the main handler's response; dbError: the
\* upsert returned an error, which the code does not look at
handleStoreTokensOperation(table, time, authUserId, tokenData, provider, accountType, dbError) ==
  IF tokenData.access_token = "" \/ tokenData.refresh_token = ""
    THEN [table |-> table, response |-> internalError]
    ELSE
      LET existingTokens == IF authUserId \in DOMAIN table THEN table[authUserId] ELSE <<>>
          expiresAt == time + (IF tokenData.expires_in = 0 THEN DefaultExpiresIn
                                                            ELSE tokenData.expires_in)
          accountData == [access_token |-> tokenData.access_token,
                          refresh_token |-> tokenData.refresh_token,
                          expires_at |-> expiresAt]
          updatedTokens == withAccount(existingTokens, provider, accountType, accountData)
      IN [table |-> IF dbError THEN table ELSE Upsert(table, authUserId, updatedTokens),
          response |-> jsonResponse([success |-> TRUE, stored |-> TRUE,
                                     account |-> [provider |-> provider,
                                                  account_type |-> accountType,
                                                  expires_at |-> expiresAt]], 200)]

\* the stored token counts as expired from the very minute it expires
needsRefreshNoBuffer(time, account) == time >= account.expires_at

\* now.getTime() >= expiresAt.getTime() - bufferTime
needsRefresh(time, account) == time >= account.expires_at - BufferTime

\* handleGetValidTokenOperation, then the main handler's response; refreshResult:
\* what the provider would answer; dbError: the update returned an error, which
\* the code does not look at
handleGetValidTokenOperation(table, time, authUserId, provider, accountType, refreshResult, dbError) ==
  IF ~hasAccount(table, authUserId, provider, accountType)
    THEN [table |-> table, upstream |-> NoUpstream,
          response |-> jsonResponse([success |-> TRUE, error |-> "No account found",
                                     account_found |-> FALSE], 200)]
    ELSE
      LET account == table[authUserId][provider][accountType] IN
      IF needsRefresh(time, account)
        THEN
          IF ~refreshResult.success
            THEN [table |-> table, upstream |-> [called |-> TRUE] @@ refreshResult,
                  response |-> jsonResponse([success |-> TRUE,
                                             error |-> "Failed to refresh token",
                                             refresh_failed |-> TRUE], 200)]
            ELSE
              LET updatedAccount ==
                    [account EXCEPT !.access_token = refreshResult.access_token,
                                    !.expires_at = time + refreshResult.expires_in]
                  updatedTokens ==
                    withAccount(table[authUserId], provider, accountType, updatedAccount)
              IN [table |-> IF dbError THEN table
                                       ELSE [table EXCEPT ![authUserId] = updatedTokens],
                  upstream |-> [called |-> TRUE] @@ refreshResult,
                  response |-> jsonResponse([success |-> TRUE,
                                             access_token |-> refreshResult.access_token,
                                             expires_at |-> updatedAccount.expires_at,
                                             refreshed |-> TRUE], 200)]
        ELSE [table |-> table, upstream |-> NoUpstream,
              response |-> jsonResponse([success |-> TRUE,
                                         access_token |-> account.access_token,
                                         expires_at |-> account.expires_at,
                                         refreshed |-> FALSE], 200)]

----------------------------------------------------------------------------
(* The edge function: tokens *)

StoreTokens(u, tokenData, provider, accountType, dbError) ==
  LET r == handleStoreTokensOperation(user_auth_tokens, now, u, tokenData,
                                      provider, accountType, dbError)
  IN /\ user_auth_tokens' = r.table
     /\ response' = r.response
     /\ request' = [operation |-> "store_tokens", userId |-> u]
     /\ upstream' = NoUpstream
     /\ UNCHANGED <<now, user_settings, access_control_config, beta_whitelist,
                    accessCheck, lastSaved>>
     /\ UNCHANGED <<navVars, serveVars, restVars>>

GetValidToken(u, provider, accountType, refreshResult, dbError) ==
  LET r == handleGetValidTokenOperation(user_auth_tokens, now, u, provider,
                                        accountType, refreshResult, dbError)
  IN /\ user_auth_tokens' = r.table
     /\ response' = r.response
     /\ upstream' = r.upstream
     /\ request' = [operation |-> "get_valid_token", userId |-> u]
     /\ UNCHANGED <<now, user_settings, access_control_config, beta_whitelist,
                    accessCheck, lastSaved>>
     /\ UNCHANGED <<navVars, serveVars, restVars>>

\* a minute passes
Tick ==
  /\ now < MaxNow
  /\ now' = now + 1
  /\ UNCHANGED <<user_auth_tokens, user_settings, access_control_config,
                 beta_whitelist, request, response, upstream, accessCheck, lastSaved>>
  /\ UNCHANGED <<navVars, serveVars, restVars>>

TokenNext ==
  \/ \E u \in Users, tokenData \in TokenData, provider \in Providers,
        accountType \in AccountTypes, dbError \in BOOLEAN :
       StoreTokens(u, tokenData, provider, accountType, dbError)
  \/ \E u \in Users, provider \in Providers, accountType \in AccountTypes,
        refreshResult \in RefreshResults, dbError \in BOOLEAN :
       GetValidToken(u, provider, accountType, refreshResult, dbError)
  \/ Tick

TokenSpec == Init /\ [][TokenNext]_vars

\* C4: get_valid_token for a stored account calls the provider's refresh whenever
\* now >= expires_at - 5 minutes, and then answers with the provider's new token
\* and refreshed: true, or with no access_token if the refresh failed; a token it
\* answers with refreshed: false is the stored one, expiring more than 5 minutes
\* from now
C4_ValidTokenOrRefreshed ==
  [][\A u \in Users, provider \in Providers, accountType \in AccountTypes :
       /\ \E refreshResult \in RefreshResults, dbError \in BOOLEAN :
            GetValidToken(u, provider, accountType, refreshResult, dbError)
       /\ hasAccount(user_auth_tokens, u, provider, accountType)
       => LET account == user_auth_tokens[u][provider][accountType] IN
          /\ now >= account.expires_at - 5 =>
               /\ upstream'.called
               /\ IF "access_token" \in DOMAIN response'
                    THEN /\ upstream'.success
                         /\ response'.refreshed
                         /\ response'.access_token = upstream'.access_token
                    ELSE ~upstream'.success
          /\ "access_token" \in DOMAIN response' /\ ~response'.refreshed =>
               /\ account.expires_at - now > 5
               /\ response'.access_token = account.access_token
               /\ ~upstream'.called]_vars

\* C4 witness: a token stored to expire in 7 minutes was handed out as it was
\* with 6 minutes left, and replaced by the provider's at 5 minutes left
C4_Witness ==
  /\ now = 2
  /\ request = [operation |-> "get_valid_token", userId |-> "u1"]
  /\ upstream.called /\ upstream.success
  /\ "access_token" \in DOMAIN response
  /\ response.refreshed
  /\ response.access_token = upstream.access_token
  /\ hasAccount(user_auth_tokens, "u1", "google", "primary")
  /\ user_auth_tokens["u1"]["google"]["primary"].access_token = response.access_token
  /\ hasAccount(user_auth_tokens, "u2", "google", "primary")
  /\ user_auth_tokens["u2"]["google"]["primary"].expires_at = 7

----------------------------------------------------------------------------
(* jwt-auth/index.ts: access control *)

\* what the two reads of checkUserAccess can come back with: the rows, no data
\* (an error is returned and not looked at), or an exception
ConfigReads == {"ok", "null", "threw"}
WhitelistReads == {"ok", "null"}

Configs == UNION {[keys -> ConfigValues] : keys \in SUBSET ConfigKeys}
Whitelists ==
  UNION {[emails -> [access_granted_at : {None, Some(0)}]] : emails \in SUBSET Emails}

\* config.key === 'true'
isTrue(config, key) == key \in DOMAIN config /\ config[key] = "true"

\* beta mode is looked at before maintenance mode
checkUserAccessBetaFirst(config0, whitelist0, time, email, configRead, whitelistRead) ==
  IF configRead = "threw"
    THEN [whitelist |-> whitelist0, result |-> [allowed |-> FALSE, reason |-> "error"]]
    ELSE
      LET config == IF configRead = "ok" THEN config0 ELSE <<>>
          found == whitelistRead = "ok" /\ email \in DOMAIN whitelist0
      IN IF isTrue(config, "beta_mode_enabled")
           THEN IF ~found
                  THEN [whitelist |-> whitelist0,
                        result |-> [allowed |-> FALSE, reason |-> "beta_not_whitelisted"]]
                  ELSE [whitelist |->
                          IF whitelist0[email].access_granted_at = None
                            THEN [whitelist0 EXCEPT ![email].access_granted_at = Some(time)]
                            ELSE whitelist0,
                        result |-> [allowed |-> TRUE, tier |-> "beta",
                                    max_dashboards |-> 999, max_calendars |-> 999]]
           ELSE IF isTrue(config, "maintenance_mode")
             THEN [whitelist |-> whitelist0,
                   result |-> [allowed |-> FALSE, reason |-> "maintenance_mode"]]
             ELSE IF isTrue(config, "trial_enabled")
               THEN [whitelist |-> whitelist0,
                     result |-> [allowed |-> TRUE, tier |-> "trial",
                                 max_dashboards |-> 1, max_calendars |-> 2]]
               ELSE [whitelist |-> whitelist0,
                     result |-> [allowed |-> FALSE, reason |-> "access_disabled"]]

\* an email that is not on the whitelist goes on to the trial check
checkUserAccessMissFallsThrough(config0, whitelist0, time, email, configRead, whitelistRead) ==
  IF configRead = "threw"
    THEN [whitelist |-> whitelist0, result |-> [allowed |-> FALSE, reason |-> "error"]]
    ELSE
      LET config == IF configRead = "ok" THEN config0 ELSE <<>>
          found == whitelistRead = "ok" /\ email \in DOMAIN whitelist0
      IN IF isTrue(config, "maintenance_mode")
           THEN [whitelist |-> whitelist0,
                 result |-> [allowed |-> FALSE, reason |-> "maintenance_mode"]]
           ELSE IF isTrue(config, "beta_mode_enabled") /\ found
             THEN [whitelist |->
                     IF whitelist0[email].access_granted_at = None
                       THEN [whitelist0 EXCEPT ![email].access_granted_at = Some(time)]
                       ELSE whitelist0,
                   result |-> [allowed |-> TRUE, tier |-> "beta",
                               max_dashboards |-> 999, max_calendars |-> 999]]
             ELSE IF isTrue(config, "trial_enabled")
               THEN [whitelist |-> whitelist0,
                     result |-> [allowed |-> TRUE, tier |-> "trial",
                                 max_dashboards |-> 1, max_calendars |-> 2]]
               ELSE [whitelist |-> whitelist0,
                     result |-> [allowed |-> FALSE, reason |-> "access_disabled"]]

\* checkUserAccess: its return value and the whitelist it leaves
checkUserAccess(config0, whitelist0, time, email, configRead, whitelistRead) ==
  IF configRead = "threw"
    THEN [whitelist |-> whitelist0, result |-> [allowed |-> FALSE, reason |-> "error"]]
    ELSE
      LET config == IF configRead = "ok" THEN config0 ELSE <<>>
          found == whitelistRead = "ok" /\ email \in DOMAIN whitelist0
      IN IF isTrue(config, "maintenance_mode")
           THEN [whitelist |-> whitelist0,
                 result |-> [allowed |-> FALSE, reason |-> "maintenance_mode"]]
           ELSE IF isTrue(config, "beta_mode_enabled")
             THEN IF ~found
                    THEN [whitelist |-> whitelist0,
                          result |-> [allowed |-> FALSE, reason |-> "beta_not_whitelisted"]]
                    ELSE [whitelist |->
                            IF whitelist0[email].access_granted_at = None
                              THEN [whitelist0 EXCEPT ![email].access_granted_at = Some(time)]
                              ELSE whitelist0,
                          result |-> [allowed |-> TRUE, tier |-> "beta",
                                      max_dashboards |-> 999, max_calendars |-> 999]]
             ELSE IF isTrue(config, "trial_enabled")
               THEN [whitelist |-> whitelist0,
                     result |-> [allowed |-> TRUE, tier |-> "trial",
                                 max_dashboards |-> 1, max_calendars |-> 2]]
               ELSE [whitelist |-> whitelist0,
                     result |-> [allowed |-> FALSE, reason |-> "access_disabled"]]

----------------------------------------------------------------------------
(* The edge function: access control *)

CheckUserAccess(email, configRead, whitelistRead) ==
  LET r == checkUserAccess(access_control_config, beta_whitelist, now, email,
                           configRead, whitelistRead)
  IN /\ accessCheck' = r.result
     /\ beta_whitelist' = r.whitelist
     /\ request' = [operation |-> "checkUserAccess", email |-> email]
     /\ UNCHANGED <<now, user_auth_tokens, user_settings, access_control_config,
                    response, upstream, lastSaved>>
     /\ UNCHANGED <<navVars, serveVars, restVars>>

\* the two tables are filled by hand, outside this code: any content
AccessInit ==
  /\ NavInit
  /\ RestInit
  /\ now = 1
  /\ user_auth_tokens = NoRows
  /\ user_settings = NoRows
  /\ access_control_config \in Configs
  /\ beta_whitelist \in Whitelists
  /\ request = NoRequest
  /\ response = NoResponse
  /\ upstream = NoUpstream
  /\ accessCheck = NoAccessCheck
  /\ lastSaved = [u \in Users |-> None]
  /\ auth_users = {}
  /\ user_profiles = NoRows
  /\ steps = <<>>

AccessNext ==
  \E email \in Emails, configRead \in ConfigReads, whitelistRead \in WhitelistReads :
    CheckUserAccess(email, configRead, whitelistRead)

AccessSpec == AccessInit /\ [][AccessNext]_vars

----------------------------------------------------------------------------
(* jwt-auth/index.ts: the other account operations *)

\* handleListAccountsOperation, then the main handler's response
handleListAccountsOperation(table, authUserId) ==
  LET tokens == IF authUserId \in DOMAIN table THEN table[authUserId] ELSE <<>>
  IN jsonResponse(
       [success |-> TRUE,
        accounts |-> UNION {{[provider |-> provider, account_type |-> accountType,
                              expires_at |-> tokens[provider][accountType].expires_at] :
                               accountType \in DOMAIN tokens[provider]} :
                            provider \in DOMAIN tokens}], 200)

\* a copy of the object without one key
without(object, key) == [k \in DOMAIN object \ {key} |-> object[k]]

\* handleRemoveAccountOperation: the tokens it writes when the account is there
tokensAfterRemove(tokens, provider, accountType) ==
  LET updatedProviderAccounts == without(tokens[provider], accountType)
  IN IF DOMAIN updatedProviderAccounts = {}
       THEN without(tokens, provider)
       ELSE [tokens EXCEPT ![provider] = updatedProviderAccounts]

\* handleRemoveAccountOperation, then the main handler's response; dbError: the
\* update returned an error, which the code does not look at
handleRemoveAccountOperation(table, authUserId, provider, accountType, dbError) ==
  IF ~hasAccount(table, authUserId, provider, accountType)
    THEN [table |-> table,
          response |-> jsonResponse([success |-> TRUE, removed |-> FALSE,
                                     error |-> "Account not found"], 200)]
    ELSE [table |-> IF dbError THEN table
                    ELSE [table EXCEPT ![authUserId] =
                            tokensAfterRemove(table[authUserId], provider, accountType)],
          response |-> jsonResponse([success |-> TRUE, removed |-> TRUE], 200)]

----------------------------------------------------------------------------
(* jwt-auth/index.ts: the main handler *)

JwtOperations == {"load", "save", "get_valid_token", "refresh_jwt", "list_accounts",
                  "remove_account", "store_tokens"}

\* the email Google knows each auth user by, and the id auth.users gives it
EmailOf == [u \in Users |-> IF u = "u1" THEN "ann@example.com" ELSE "bob@example.com"]
UserIdOf == [e \in Emails |-> IF e = "ann@example.com" THEN "u1" ELSE "u2"]

\* a session JWT: its claims, and whether its signature and expiry verify
JWTs == {[sub |-> u, email |-> EmailOf[u], valid |-> v] : u \in Users, v \in BOOLEAN}

\* the Authorization header: none, or a scheme and a token
NoHeader == [scheme |-> "none"]
AuthHeaders == {NoHeader} \cup [scheme : {"Basic", "Bearer"}, token : JWTs]

\* a verified token's claim is taken whatever its signature
verifySupabaseJWTUnchecked(token) == Some(token.sub)

\* verifySupabaseJWT: payload.sub, or null when verify throws
verifySupabaseJWT(token) == IF token.valid THEN Some(token.sub) ELSE None

\* getUserEmailFromJWT
getUserEmailFromJWT(token) == IF token.valid THEN token.email ELSE ""

\* generateSupabaseJWT
generateSupabaseJWT(userId, email) == [sub |-> userId, email |-> email, valid |-> TRUE]

\* the body of a request besides its operation, and what the services it calls
\* come back with
Bodies ==
  [settings : SettingsObjects, data : TokenData, provider : Providers,
   account_type : AccountTypes]
Outcomes == [refreshResult : RefreshResults, dbError : BOOLEAN]

\* handleRefreshTokenStandalone
handleRefreshTokenStandalone(body, outcome) ==
  IF body.data.refresh_token = "" THEN
    [response |-> jsonResponse([error |-> "Token refresh failed"], 500),
     upstream |-> NoUpstream, steps |-> <<>>]
  ELSE
    [response |->
       IF outcome.refreshResult.success
         THEN jsonResponse([success |-> TRUE,
                            access_token |-> outcome.refreshResult.access_token,
                            expires_in |-> outcome.refreshResult.expires_in], 200)
         ELSE jsonResponse([error |-> "Token refresh failed"], 500),
     upstream |-> [called |-> TRUE] @@ outcome.refreshResult,
     steps |-> <<"refreshGoogleToken">>]

\* what a request leaves: the two tables of the session operations, the
\* response, the provider call and the calls made
served(settingsTable, tokensTable, resp, up, calls) ==
  [user_settings |-> settingsTable, user_auth_tokens |-> tokensTable,
   response |-> resp, upstream |-> up, steps |-> calls]

\* the main handler for the operations that need a session JWT
serveJwt(settingsTable, tokensTable, time, operation, authHeader, body, outcome) ==
  IF authHeader.scheme # "Bearer"
    THEN served(settingsTable, tokensTable,
                jsonResponse([error |-> "Missing Supabase JWT in Authorization header"], 401),
                NoUpstream, <<>>)
  ELSE
    LET verified == verifySupabaseJWT(authHeader.token) IN
    IF verified = None
      THEN served(settingsTable, tokensTable,
                  jsonResponse([error |-> "Invalid Supabase JWT"], 401),
                  NoUpstream, <<"verifySupabaseJWT">>)
    ELSE
      LET userId == verified[1]
          userEmail == getUserEmailFromJWT(authHeader.token)
      IN
      IF operation = "load" THEN
        served(settingsTable, tokensTable,
               handleLoadOperation(settingsTable, userId, outcome.dbError),
               NoUpstream, <<"verifySupabaseJWT", "handleLoadOperation">>)
      ELSE IF operation = "save" THEN
        LET r == handleSaveOperation(settingsTable, userId, userEmail, body.settings,
                                     outcome.dbError)
        IN served(r.table, tokensTable, r.response, NoUpstream,
                  <<"verifySupabaseJWT", "handleSaveOperation">>)
      ELSE IF operation = "get_valid_token" THEN
        LET r == handleGetValidTokenOperation(tokensTable, time, userId, body.provider,
                                              body.account_type, outcome.refreshResult,
                                              outcome.dbError)
        IN served(settingsTable, r.table, r.response, r.upstream,
                  <<"verifySupabaseJWT", "handleGetValidTokenOperation">>)
      ELSE IF operation = "refresh_jwt" THEN
        served(settingsTable, tokensTable,
               jsonResponse([success |-> TRUE,
                             jwtToken |-> generateSupabaseJWT(userId, userEmail),
                             user |-> [id |-> userId, email |-> userEmail]], 200),
               NoUpstream, <<"verifySupabaseJWT", "generateSupabaseJWT">>)
      ELSE IF operation = "list_accounts" THEN
        served(settingsTable, tokensTable,
               handleListAccountsOperation(tokensTable, userId),
               NoUpstream, <<"verifySupabaseJWT", "handleListAccountsOperation">>)
      ELSE IF operation = "remove_account" THEN
        LET r == handleRemoveAccountOperation(tokensTable, userId, body.provider,
                                              body.account_type, outcome.dbError)
        IN served(settingsTable, r.table, r.response, NoUpstream,
                  <<"verifySupabaseJWT", "handleRemoveAccountOperation">>)
      ELSE
        LET r == handleStoreTokensOperation(tokensTable, time, userId, body.data,
                                            body.provider, body.account_type,
                                            outcome.dbError)
        IN served(settingsTable, r.table, r.response, NoUpstream,
                  <<"verifySupabaseJWT", "handleStoreTokensOperation">>)

\* one request to the edge function that needs a session JWT, or a refresh_token
\* request
ServeJwt(operation, authHeader, googleAccessToken, body, outcome) ==
  LET r == IF operation = "refresh_token"
             THEN handleRefreshTokenStandalone(body, outcome) @@
                  [user_settings |-> user_settings, user_auth_tokens |-> user_auth_tokens]
             ELSE serveJwt(user_settings, user_auth_tokens, now, operation, authHeader,
                           body, outcome)
  IN /\ user_settings' = r.user_settings
     /\ user_auth_tokens' = r.user_auth_tokens
     /\ response' = r.response
     /\ upstream' = r.upstream
     /\ steps' = r.steps
     /\ request' = [operation |-> operation, authHeader |-> authHeader,
                     googleAccessToken |-> googleAccessToken]
     /\ UNCHANGED <<now, access_control_config, beta_whitelist, accessCheck, lastSaved,
                    auth_users, user_profiles>>
     /\ UNCHANGED <<navVars, restVars>>

\* the session requests of one signed-in user and of callers without a session
JwtHeaders ==
  {NoHeader} \cup
  {[scheme |-> s, token |-> [sub |-> "u1", email |-> EmailOf["u1"], valid |-> v]] :
     s \in {"Basic", "Bearer"}, v \in BOOLEAN}
JwtBodies ==
  {b \in Bodies : /\ b.settings = [k \in SettingsKeys |-> "v1"]
                  /\ b.data.expires_in = 7 /\ b.data.access_token # ""}
JwtOutcomes == {o \in Outcomes : o.refreshResult.success => o.refreshResult.expires_in = 7}

JwtNext ==
  \E operation \in JwtOperations \cup {"refresh_token"}, authHeader \in JwtHeaders,
     googleAccessToken \in {"none", "valid"}, body \in JwtBodies, outcome \in JwtOutcomes :
    ServeJwt(operation, authHeader, googleAccessToken, body, outcome)

JwtSpec == Init /\ [][JwtNext]_vars

\* the calls that read or write the database
DbSteps ==
  {"handleLoadOperation", "handleSaveOperation", "handleGetValidTokenOperation",
   "handleListAccountsOperation", "handleRemoveAccountOperation",
   "handleStoreTokensOperation", "checkUserAccess", "getOrCreateAuthUser",
   "ensureUserProfile"}

\* C12: a request for one of the seven session operations whose Authorization
\* header is not "Bearer <jwt>" with a JWT that verifies is answered 401 and
\* makes no call that reads or writes the database, whatever googleAccessToken it
\* carries; a refresh_token request is answered the same with and without a
\* session, and never with 401
C12_SessionOperationsNeedJwt ==
  [][/\ (/\ request'.operation \in JwtOperations
         /\ ~(/\ request'.authHeader.scheme = "Bearer"
              /\ request'.authHeader.token.valid))
        => /\ response'.status = 401
           /\ \A n \in 1..Len(steps') : steps'[n] \notin DbSteps
           /\ UNCHANGED <<user_settings, user_auth_tokens, auth_users,
                          user_profiles, beta_whitelist, access_control_config>>
     /\ request'.operation = "refresh_token"
        => /\ response'.status \in {200, 500}
           /\ \A n \in 1..Len(steps') : steps'[n] # "verifySupabaseJWT"]_vars

\* C12 witness: with an account stored for the user, a get_valid_token request
\* carrying a JWT that does not verify was turned away with 401
C12_Witness ==
  /\ request.operation = "get_valid_token"
  /\ request.authHeader.scheme = "Bearer"
  /\ request.googleAccessToken = "valid"
  /\ response.status = 401
  /\ steps = <<"verifySupabaseJWT">>
  /\ hasAccount(user_auth_tokens, "u1", "google", "primary")
  /\ "u1" \in DOMAIN user_settings

----------------------------------------------------------------------------
(* jwt-auth/index.ts: the Google-token-authenticated path *)

\* a Google access token: none in the body, one Google does not know, or one of
\* an account whose email is verified or not
GoogleTokens ==
  {[kind |-> "none"], [kind |-> "invalid"]} \cup
  [kind : {"unverified", "valid"}, email : Emails]

\* verifyGoogleToken: the user info, or null
verifyGoogleToken(accessToken) ==
  IF accessToken.kind = "valid"
    THEN Some([email |-> accessToken.email, verified_email |-> TRUE])
    ELSE None

\* how the reads and writes of the path go
GoogleOutcomes ==
  [configRead : ConfigReads, whitelistRead : WhitelistReads,
   userStep : {"ok", "listFails", "createFails"}, dbError : BOOLEAN]

\* the denied request goes on as an allowed one would
accessDeniedNever(check) == FALSE

\* if (!accessCheck.allowed)
accessDenied(check) == ~check.allowed

\* ensureUserProfile: the table it leaves; dbError: the write returned an error,
\* which the code does not look at
ensureUserProfile(table, time, userId, email, tier, dbError) ==
  IF dbError THEN table
  ELSE IF userId \in DOMAIN table
    THEN [table EXCEPT ![userId].last_sign_in_at = time]
    ELSE Upsert(table, userId, [email |-> email, tier |-> tier,
                                max_dashboards |-> IF tier = "beta" THEN 999 ELSE 1,
                                max_calendars |-> IF tier = "beta" THEN 999 ELSE 2,
                                last_sign_in_at |-> time])

\* what a request on this path leaves
servedGoogle(whitelist, users, profiles, check, resp, calls) ==
  [beta_whitelist |-> whitelist, auth_users |-> users, user_profiles |-> profiles,
   accessCheck |-> check, response |-> resp, steps |-> calls]

\* the main handler past the JWT-authenticated operations
serveGoogle(config, whitelist, users, profiles, check0, time, operation, googleAccessToken, outcome) ==
  IF googleAccessToken.kind = "none" THEN
    servedGoogle(whitelist, users, profiles, check0,
                 jsonResponse([error |-> "Google access token required"], 400), <<>>)
  ELSE
    LET googleUser == verifyGoogleToken(googleAccessToken) IN
    IF googleUser = None THEN
      servedGoogle(whitelist, users, profiles, check0,
                   jsonResponse([error |-> "Invalid or unverified Google token"], 401),
                   <<"verifyGoogleToken">>)
    ELSE
      LET email == googleUser[1].email
          access == checkUserAccess(config, whitelist, time, email,
                                    outcome.configRead, outcome.whitelistRead)
          check == access.result
      IN
      IF accessDenied(check) THEN
        servedGoogle(access.whitelist, users, profiles, check,
                     jsonResponse([error |-> "access_denied", reason |-> check.reason], 403),
                     <<"verifyGoogleToken", "checkUserAccess">>)
      ELSE IF outcome.userStep = "listFails"
              \/ (email \notin users /\ outcome.userStep = "createFails") THEN
        servedGoogle(access.whitelist, users, profiles, check, internalError,
                     <<"verifyGoogleToken", "checkUserAccess", "getOrCreateAuthUser">>)
      ELSE
        LET authUserId == UserIdOf[email]
            tier == IF "tier" \in DOMAIN check THEN check.tier ELSE "none"
            profiles1 == ensureUserProfile(profiles, time, authUserId, email, tier,
                                           outcome.dbError)
            jwtToken == generateSupabaseJWT(authUserId, email)
            calls == <<"verifyGoogleToken", "checkUserAccess", "getOrCreateAuthUser",
                       "ensureUserProfile", "generateSupabaseJWT">>
        IN servedGoogle(access.whitelist, users \cup {email}, profiles1, check,
             IF operation = "get_jwt_from_google"
               THEN jsonResponse([success |-> TRUE,
                                  user |-> [id |-> authUserId, email |-> email],
                                  jwtToken |-> jwtToken,
                                  access |-> [tier |-> tier]], 200)
               ELSE jsonResponse([error |-> "Invalid operation"], 400),
             calls)

\* one request to the edge function for another operation than those of ServeJwt
ServeGoogle(operation, googleAccessToken, outcome) ==
  LET r == serveGoogle(access_control_config, beta_whitelist, auth_users, user_profiles,
                       accessCheck, now, operation, googleAccessToken, outcome)
  IN /\ beta_whitelist' = r.beta_whitelist
     /\ auth_users' = r.auth_users
     /\ user_profiles' = r.user_profiles
     /\ accessCheck' = r.accessCheck
     /\ response' = r.response
     /\ steps' = r.steps
     /\ upstream' = NoUpstream
     /\ request' = [operation |-> operation, authHeader |-> NoHeader,
                     googleAccessToken |-> googleAccessToken]
     /\ UNCHANGED <<now, user_settings, user_auth_tokens, access_control_config,
                    lastSaved>>
     /\ UNCHANGED <<navVars, restVars>>

\* the access control tables as an administrator may have filled them: every
\* key set, one email possibly invited
GoogleInit ==
  /\ NavInit
  /\ RestInit
  /\ now = 1
  /\ user_auth_tokens = NoRows
  /\ user_settings = NoRows
  /\ access_control_config \in [ConfigKeys -> ConfigValues]
  /\ beta_whitelist \in {w \in Whitelists : DOMAIN w \subseteq {"ann@example.com"}}
  /\ request = NoRequest
  /\ response = NoResponse
  /\ upstream = NoUpstream
  /\ accessCheck = NoAccessCheck
  /\ lastSaved = [u \in Users |-> None]
  /\ auth_users = {}
  /\ user_profiles = NoRows
  /\ steps = <<>>

GoogleNext ==
  \E operation \in {"get_jwt_from_google", "unknown"}, googleAccessToken \in GoogleTokens,
     outcome \in GoogleOutcomes :
    ServeGoogle(operation, googleAccessToken, outcome)

GoogleSpec == GoogleInit /\ [][GoogleNext]_vars

\* the order of the calls on this path
GoogleOrder ==
  <<"verifyGoogleToken", "checkUserAccess", "getOrCreateAuthUser", "ensureUserProfile",
    "generateSupabaseJWT">>

\* C13: a request on the Google path makes its calls in the order verify, access
\* check, get-or-create auth user, ensure profile, issue JWT; a token Google does
\* not verify is answered 401 and a denied access check 403 access_denied with
\* its reason, and then no auth user is created, no profile is created or
\* updated and no JWT is issued
C13_ProvisioningAfterAccessCheck ==
  [][request' # request \/ response' # response \/ steps' # steps =>
       LET token == request'.googleAccessToken
           denied == /\ Len(steps') >= 2
                     /\ ~accessCheck'.allowed
       IN /\ steps' = SubSeq(GoogleOrder, 1, Len(steps'))
          /\ token.kind \in {"invalid", "unverified"} => response'.status = 401
          /\ denied => /\ response'.status = 403
                       /\ response'.error = "access_denied"
                       /\ response'.reason = accessCheck'.reason
          /\ response'.status \in {401, 403} =>
               /\ UNCHANGED <<auth_users, user_profiles>>
               /\ "jwtToken" \notin DOMAIN response'
               /\ Len(steps') <= 2]_vars

\* C13 witness: with one user already provisioned, a verified Google user was
\* denied by the access check and nothing was created for it
C13_Witness ==
  /\ request.operation = "get_jwt_from_google"
  /\ request.googleAccessToken = [kind |-> "valid", email |-> "bob@example.com"]
  /\ response.status = 403
  /\ response.reason = "beta_not_whitelisted"
  /\ auth_users = {"ann@example.com"}
  /\ DOMAIN user_profiles = {"u1"}

\* C14: every response of the edge function is a success response (status 200,
\* success true, no error field) or a failure response (an error field with
\* status 400, 401, 403 or 500); a get_valid_token that finds no account or
\* cannot refresh, and a remove_account that finds no account, are failures
C14_SuccessOrFailure ==
  response # NoResponse =>
    \/ /\ response.status = 200
       /\ "success" \in DOMAIN response
       /\ response.success = TRUE
       /\ "error" \notin DOMAIN response
    \/ /\ "error" \in DOMAIN response
       /\ response.status \in {400, 401, 403, 500}

----------------------------------------------------------------------------
(* jwt-auth/index.ts: invocations for one user that overlap *)

\* most invocations between two moments of rest
MaxInFlight == 2

\* the account operations of one signed-in user on two of its accounts
FlightUser == "u1"
FlightAccountTypes == {"primary", "secondary"}
FlightRequests ==
  [operation : {"store_tokens", "remove_account", "get_valid_token"},
   provider : Providers, account_type : FlightAccountTypes]
FlightTokenData == [access_token |-> "a1", refresh_token |-> "r1", expires_in |-> 7]
FlightRefreshResult == [success |-> TRUE, access_token |-> "n1", expires_in |-> 7]

\* the handler of a request, run at one time on the table it read
handleAccountOperation(table, time, req) ==
  IF req.operation = "store_tokens" THEN
    handleStoreTokensOperation(table, time, FlightUser, FlightTokenData, req.provider,
                               req.account_type, FALSE)
  ELSE IF req.operation = "remove_account" THEN
    handleRemoveAccountOperation(table, FlightUser, req.provider, req.account_type, FALSE)
  ELSE
    handleGetValidTokenOperation(table, time, FlightUser, req.provider, req.account_type,
                                 FlightRefreshResult, FALSE)

\* whether the handler that answered this wrote the tokens column: the upsert of
\* store_tokens, the update after a refresh, the update of remove_account
wroteTokens(resp) ==
  \/ "stored" \in DOMAIN resp
  \/ "refreshed" \in DOMAIN resp /\ resp.refreshed
  \/ "removed" \in DOMAIN resp /\ resp.removed

AtRest == \A i \in 1..Len(inflight) : inflight[i].done

\* an invocation starts and selects the user's tokens
Invoke(req) ==
  /\ AtRest \/ Len(inflight) < MaxInFlight
  /\ inflight' = Append(IF AtRest THEN <<>> ELSE inflight,
                        [request |-> req, read |-> user_auth_tokens, done |-> FALSE,
                         at |-> 0])
  /\ serialBase' = IF AtRest THEN user_auth_tokens ELSE serialBase
  /\ UNCHANGED <<navVars, moreVars, brokerVars, pickerVars, sessionVars, startupVars, prefsVars>>

\* an invocation that has read goes on: it writes the tokens it built from
\* what it read, and answers
Complete(i) ==
  /\ ~inflight[i].done
  /\ LET req == inflight[i].request
         r == handleAccountOperation(inflight[i].read, now, req)
     IN /\ user_auth_tokens' =
             IF wroteTokens(r.response)
               THEN Upsert(user_auth_tokens, FlightUser, r.table[FlightUser])
               ELSE user_auth_tokens
        /\ response' = r.response
        /\ upstream' = IF "upstream" \in DOMAIN r THEN r.upstream ELSE NoUpstream
        /\ request' = [operation |-> req.operation, userId |-> FlightUser]
  /\ inflight' = [inflight EXCEPT ![i].done = TRUE, ![i].at = now]
  /\ UNCHANGED <<now, user_settings, access_control_config, beta_whitelist, accessCheck,
                 lastSaved, serialBase>>
  /\ UNCHANGED <<navVars, moreVars, serveVars, pickerVars, sessionVars, startupVars, prefsVars>>

FlightNext ==
  \/ \E req \in FlightRequests : Invoke(req)
  \/ \E i \in 1..Len(inflight) : Complete(i)
  \/ Tick

FlightSpec == Init /\ [][FlightNext]_vars

\* the orders in which n invocations can run one after the other
Orders(n) == {o \in [1..n -> 1..n] : \A i, j \in 1..n : o[i] = o[j] => i = j}

RECURSIVE serialFrom(_, _, _)
\* the table after the invocations ran alone, in this order, from the k-th on
serialFrom(table, order, k) ==
  IF k > Len(inflight) THEN table
  ELSE serialFrom(handleAccountOperation(table, inflight[order[k]].at,
                                         inflight[order[k]].request).table,
                  order, k + 1)

\* C15: when invocations of store_tokens, remove_account and get_valid_token for
\* one user that touch different accounts have overlapped, the user's row of
\* user_auth_tokens is what running them one after the other in some order
\* leaves, so no stored account is lost and no removed one comes back
C15_SerialOutcome ==
  (/\ Len(inflight) > 0
   /\ AtRest
   /\ \A i, j \in 1..Len(inflight) :
        i # j => <<inflight[i].request.provider, inflight[i].request.account_type>>
                 # <<inflight[j].request.provider, inflight[j].request.account_type>>)
  => user_auth_tokens \in {serialFrom(serialBase, o, 1) : o \in Orders(Len(inflight))}

----------------------------------------------------------------------------
(* google-picker-client.js: makePickerRequest *)

\* this.retryConfig
maxRetries == 3
baseDelay == 1000
maxDelay == 10000

\* the status of the response fetch resolves with
Statuses == {200, 401, 403, 404, 429, 500, 503}

Min(a, b) == IF a <= b THEN a ELSE b

\* the wait does not grow with the attempt
backoffDelayFlat(n) == Min(baseDelay, maxDelay)

\* Math.min(baseDelay * Math.pow(2, attempt), maxDelay)
backoffDelay(n) == Min(baseDelay * 2^n, maxDelay)

\* response.status >= 500 || response.status === 429
retryable(status) == status >= 500 \/ status = 429

\* the catch retries whatever was thrown
isNetworkErrorAlways(status) == TRUE

\* !error.status in the catch: the error is not one built from a response
isNetworkError(status) == status = 0

\* one iteration of the loop ends in the catch with an error of this status
caught(n, fetched, status, refreshed) ==
  IF isNetworkError(status) /\ n < maxRetries
    THEN [next |-> "continue", fetched |-> fetched, status |-> status,
          refreshed |-> refreshed, delay |-> backoffDelay(n)]
    ELSE [next |-> "throw", fetched |-> fetched, status |-> status,
          refreshed |-> refreshed, delay |-> 0]

\* one iteration of the loop: token: getAccessToken finds a token; reachable:
\* fetch resolves, with a response of status result, rather than rejects;
\* bodyOk: response.json() parses; refreshOk: refreshGoogleAccessToken resolves
iteration(n, token, reachable, result, bodyOk, refreshOk) ==
  IF ~token THEN caught(n, FALSE, 0, FALSE)
  ELSE IF ~reachable THEN caught(n, TRUE, 0, FALSE)
  ELSE IF result = 200 THEN
    IF bodyOk
      THEN [next |-> "return", fetched |-> TRUE, status |-> 200, refreshed |-> FALSE,
            delay |-> 0]
      ELSE caught(n, TRUE, 0, FALSE)
  ELSE IF result = 401 /\ n < maxRetries THEN
    IF refreshOk
      THEN [next |-> "continue", fetched |-> TRUE, status |-> 401, refreshed |-> TRUE,
            delay |-> 1000]
      ELSE caught(n, TRUE, 401, TRUE)
  ELSE IF result = 403 THEN caught(n, TRUE, 403, FALSE)
  ELSE IF retryable(result) /\ n < maxRetries THEN
    [next |-> "continue", fetched |-> TRUE, status |-> result, refreshed |-> FALSE,
     delay |-> backoffDelay(n)]
  ELSE caught(n, TRUE, result, FALSE)

\* makePickerRequest is called
StartRequest ==
  /\ pickerPc # "loop"
  /\ pickerPc' = "loop"
  /\ attempt' = 0
  /\ trail' = <<>>
  /\ refreshes' = 0
  /\ thrown' = 0
  /\ UNCHANGED <<navVars, moreVars, brokerVars, flightVars, sessionVars, startupVars, prefsVars>>

\* the body of the loop runs once more
Attempt(token, reachable, result, bodyOk, refreshOk) ==
  /\ pickerPc = "loop"
  /\ IF attempt <= maxRetries
       THEN LET it == iteration(attempt, token, reachable, result, bodyOk, refreshOk) IN
            /\ trail' = Append(trail, [attempt |-> attempt, fetched |-> it.fetched,
                                       status |-> it.status, delay |-> it.delay])
            /\ refreshes' = refreshes + (IF it.refreshed THEN 1 ELSE 0)
            /\ attempt' = IF it.next = "continue" THEN attempt + 1 ELSE attempt
            /\ pickerPc' = CASE it.next = "continue" -> "loop"
                             [] it.next = "return" -> "returned"
                             [] OTHER -> "thrown"
            /\ thrown' = IF it.next = "throw" THEN it.status ELSE thrown
       ELSE \* throw lastError || new Error(...)
            /\ pickerPc' = "thrown"
            /\ thrown' = trail[Len(trail)].status
            /\ UNCHANGED <<attempt, trail, refreshes>>
  /\ UNCHANGED <<navVars, moreVars, brokerVars, flightVars, sessionVars, startupVars, prefsVars>>

PickerNext ==
  \/ StartRequest
  \/ \E token \in BOOLEAN, reachable \in BOOLEAN, result \in Statuses,
        bodyOk \in BOOLEAN, refreshOk \in BOOLEAN :
       Attempt(token, reachable, result, bodyOk, refreshOk)

PickerSpec == Init /\ [][PickerNext]_vars

\* the HTTP requests the call has sent
fetches == Cardinality({i \in 1..Len(trail) : trail[i].fetched})

\* C16: a 5xx or 429 response with attempts left is retried after
\* min(1000 * 2^attempt, 10000) ms, and whatever the responses and network
\* errors, the call sends at most maxRetries + 1 = 4 HTTP requests and has
\* returned or thrown once the loop has run maxRetries + 1 times
C16_BackoffAndAtMostFourRequests ==
  /\ fetches <= maxRetries + 1
  /\ Len(trail) <= maxRetries + 1
  /\ Len(trail) = maxRetries + 1 => pickerPc \in {"returned", "thrown"}
  /\ \A i \in 1..Len(trail) :
       /\ trail[i].attempt = i - 1
       /\ (retryable(trail[i].status) /\ i - 1 < maxRetries) =>
            /\ trail[i].delay = Min(1000 * 2^(i - 1), 10000)
            /\ i < Len(trail) \/ pickerPc = "loop"

\* C16 witness: three 5xx or 429 responses were each retried and the fourth
\* request failed the same way, which ended the call
C16_Witness ==
  /\ pickerPc = "thrown"
  /\ fetches = 4
  /\ \A i \in 1..Len(trail) : retryable(trail[i].status)
  /\ trail[3].delay = 4000
  /\ thrown = 503

\* C17: within one call of makePickerRequest the access token is refreshed at
\* most once in response to 401: once refreshGoogleAccessToken has been called,
\* a further 401 does not call it again
C17_AtMostOneRefresh == refreshes <= 1

\* C18: a 403 response, at whatever attempt it arrives, is the last HTTP request
\* of the call, and the call throws an error with status 403
C18_ForbiddenIsFinal ==
  \A i \in 1..Len(trail) :
    (trail[i].fetched /\ trail[i].status = 403) =>
      /\ i = Len(trail)
      /\ pickerPc = "thrown"
      /\ thrown = 403

\* C18 witness: after two retried failures the third request was answered 403
\* and the call threw it
C18_Witness ==
  /\ Len(trail) = 3
  /\ trail[1].status = 500
  /\ trail[2].status = 401
  /\ trail[3].status = 403
  /\ pickerPc = "thrown"
  /\ thrown = 403

----------------------------------------------------------------------------
(* picker-session-manager.js: the picker session *)

\* most sessions the API creates
MaxSessions == 2

\* most calls of checkSessionStatus that wait for a response at one time
MaxChecks == 2
\* calls of setInterval by startPolling that are followed on one page
MaxIntervals == 2

\* what a variable that follows the calls holds after a step
Followed(old, new) == IF observeCalls THEN new ELSE old

\* saveState: what localStorage holds after it
saveState(session, photos, album, storage) ==
  [currentSession |-> IF session # None THEN session ELSE storage.currentSession,
   selectedPhotos |-> IF photos # None THEN photos ELSE storage.selectedPhotos,
   albumInfo |-> IF album # None THEN album ELSE storage.albumInfo]

\* clearState: what localStorage holds after it
Cleared == [currentSession |-> None, selectedPhotos |-> None, albumInfo |-> None]

\* !this.currentSession || this.currentSession.status === 'completed'
skipsPoll(session) == session = None \/ session[1].status = "completed"

\* clearInterval(this.pollingInterval) at the start of startPolling
clearPreviousNever(active, handle) == active

\* if (this.pollingInterval) clearInterval(this.pollingInterval)
clearPrevious(active, handle) == IF handle # 0 THEN active \ {handle} ELSE active

\* stopPolling, when stop holds: the interval callback calls it after a check
\* that returned "completed" or "error"
Polling(stop) ==
  IF stop /\ pollingInterval # 0
    THEN intervals' = intervals \ {pollingInterval} /\ pollingInterval' = 0
    ELSE UNCHANGED <<intervals, pollingInterval>>

\* checkSessionStatus is called, by the interval callback (polling) or by a
\* widget request
StartCheck(polling) ==
  /\ IF skipsPoll(currentSession)
       THEN /\ lastCall' = Followed(lastCall,
                                     [found |-> IF currentSession = None THEN "no_session"
                                                ELSE currentSession[1].status,
                                      sent |-> FALSE])
            /\ Polling(polling /\ currentSession # None)
            /\ UNCHANGED checks
       ELSE /\ BagCardinality(checks) < MaxChecks
            /\ checks' = checks (+) SetToBag({[pc |-> "poll",
                                               sessionId |-> currentSession[1].sessionId,
                                               photosOf |-> 0, polling |-> polling]})
            /\ lastCall' = Followed(lastCall, [found |-> currentSession[1].status,
                                                sent |-> TRUE])
            /\ UNCHANGED <<intervals, pollingInterval>>
  /\ UNCHANGED <<currentSession, selectedPhotos, albumInfo, localStorage, creating,
                 mediaItemsSet, nextSessionId, reported, fetchedFor, completedIds,
                 nextIntervalId, invoked, lastStore>>
  /\ UNCHANGED <<observeCalls, navVars, brokerVars, flightVars, pickerVars, startupVars,
                 prefsVars, moreVars>>

\* auth-manager.js handlePhotosRequest: 'status' and 'check-selection'
CheckSessionStatus == StartCheck(FALSE)

\* an interval that has not been cleared fires
IntervalTick(i) == i \in intervals /\ StartCheck(TRUE)

\* pollSession resolves or rejects for a call; when it reports mediaItemsSet the
\* call asks for the photos of this.currentSession
PollReturns(c, ok) ==
  /\ BagIn(c, checks)
  /\ c.pc = "poll"
  /\ IF ok /\ c.sessionId \in mediaItemsSet
       THEN /\ reported' = Followed(reported, reported \cup {c.sessionId})
            /\ IF currentSession = None
                 THEN checks' = checks (-) SetToBag({c}) /\ Polling(c.polling)
                 ELSE /\ checks' = (checks (-) SetToBag({c})) (+)
                           SetToBag({[c EXCEPT !.pc = "photos",
                                               !.photosOf = currentSession[1].sessionId]})
                      /\ UNCHANGED <<intervals, pollingInterval>>
       ELSE /\ checks' = checks (-) SetToBag({c})
            /\ Polling(c.polling /\ (~ok \/ currentSession = None))
            /\ UNCHANGED reported
  /\ UNCHANGED <<currentSession, selectedPhotos, albumInfo, localStorage, creating,
                 mediaItemsSet, nextSessionId, fetchedFor, completedIds, lastCall,
                 nextIntervalId, invoked, lastStore>>
  /\ UNCHANGED <<observeCalls, navVars, brokerVars, flightVars, pickerVars, startupVars,
                 prefsVars, moreVars>>

\* getSelectedPhotos resolves or rejects for a call; the API lists the media
\* items of a session only once the user has finished picking in it; empty:
\* it lists none
PhotosReturn(c, ok, empty) ==
  /\ BagIn(c, checks)
  /\ c.pc = "photos"
  /\ checks' = checks (-) SetToBag({c})
  /\ Polling(c.polling)
  /\ IF ok /\ c.photosOf \in mediaItemsSet
       THEN /\ fetchedFor' = Followed(fetchedFor, fetchedFor \cup {c.photosOf})
            /\ selectedPhotos' = IF empty THEN None ELSE Some(c.photosOf)
            /\ IF currentSession = None
                 THEN /\ lastStore' = Followed(lastStore, [polled |-> c.sessionId,
                                                           fetched |-> c.photosOf,
                                                           into |-> 0])
                      /\ UNCHANGED <<currentSession, albumInfo, localStorage, completedIds,
                                     invoked>>
                 ELSE LET session == [currentSession[1] EXCEPT !.status = "completed"]
                          album == [sessionId |-> session.sessionId]
                      IN /\ currentSession' = Some(session)
                         /\ albumInfo' = Some(album)
                         /\ localStorage' = saveState(Some(session), selectedPhotos',
                                                      Some(album), localStorage)
                         /\ completedIds' = Followed(completedIds,
                                                  completedIds \cup {session.sessionId})
                         /\ invoked' = Followed(invoked,
                                             invoked (+) SetToBag({session.sessionId}))
                         /\ lastStore' = Followed(lastStore, [polled |-> c.sessionId,
                                                              fetched |-> c.photosOf,
                                                              into |-> session.sessionId])
       ELSE UNCHANGED <<currentSession, selectedPhotos, albumInfo, localStorage,
                        fetchedFor, completedIds, invoked, lastStore>>
  /\ UNCHANGED <<creating, mediaItemsSet, nextSessionId, reported, lastCall,
                 nextIntervalId>>
  /\ UNCHANGED <<observeCalls, navVars, brokerVars, flightVars, pickerVars, startupVars,
                 prefsVars, moreVars>>

\* startAlbumSelection is called (clearFirst: through clearAndSelectNew, after
\* its stopPolling and clearState): it clears an incomplete session and asks
\* the API for a new one
StartAlbumSelection(clearFirst) ==
  /\ ~creating
  /\ creating' = TRUE
  /\ Polling(clearFirst)
  /\ IF clearFirst \/ (currentSession # None /\ currentSession[1].status # "completed")
       THEN /\ currentSession' = None
            /\ selectedPhotos' = None
            /\ albumInfo' = None
            /\ localStorage' = Cleared
       ELSE UNCHANGED <<currentSession, selectedPhotos, albumInfo, localStorage>>
  /\ UNCHANGED <<checks, mediaItemsSet, nextSessionId, reported, fetchedFor,
                 completedIds, lastCall, nextIntervalId, invoked, lastStore>>
  /\ UNCHANGED <<observeCalls, navVars, brokerVars, flightVars, pickerVars, startupVars,
                 prefsVars, moreVars>>

\* selectAlbumFlow resolves for startAlbumSelection, with a session or without
SessionCreated(ok) ==
  /\ creating
  /\ creating' = FALSE
  /\ IF ok
       THEN /\ nextSessionId <= MaxSessions
            /\ currentSession' = Some([sessionId |-> nextSessionId, status |-> "created"])
            /\ nextSessionId' = nextSessionId + 1
            /\ localStorage' = saveState(currentSession', selectedPhotos, albumInfo,
                                         localStorage)
       ELSE UNCHANGED <<currentSession, nextSessionId, localStorage>>
  /\ UNCHANGED <<selectedPhotos, albumInfo, checks, mediaItemsSet, reported,
                 fetchedFor, completedIds, lastCall, pollingInterval, intervals,
                 nextIntervalId, invoked, lastStore>>
  /\ UNCHANGED <<observeCalls, navVars, brokerVars, flightVars, pickerVars, startupVars,
                 prefsVars, moreVars>>

\* the user finishes picking in a session the API has created
UserPicks(id) ==
  /\ id < nextSessionId
  /\ id \notin mediaItemsSet
  /\ mediaItemsSet' = mediaItemsSet \cup {id}
  /\ UNCHANGED <<currentSession, selectedPhotos, albumInfo, localStorage, checks,
                 creating, nextSessionId, reported, fetchedFor, completedIds, lastCall,
                 pollingInterval, intervals, nextIntervalId, invoked, lastStore>>
  /\ UNCHANGED <<observeCalls, navVars, brokerVars, flightVars, pickerVars, startupVars,
                 prefsVars, moreVars>>

\* startPolling
StartPolling ==
  /\ IF skipsPoll(currentSession)
       THEN /\ intervals' = clearPrevious(intervals, pollingInterval)
            /\ UNCHANGED <<pollingInterval, nextIntervalId>>
       ELSE /\ nextIntervalId <= MaxIntervals
            /\ intervals' = clearPrevious(intervals, pollingInterval) \cup {nextIntervalId}
            /\ pollingInterval' = nextIntervalId
            /\ nextIntervalId' = nextIntervalId + 1
  /\ UNCHANGED <<currentSession, selectedPhotos, albumInfo, localStorage, checks,
                 creating, mediaItemsSet, nextSessionId, reported, fetchedFor,
                 completedIds, lastCall, invoked, lastStore>>
  /\ UNCHANGED <<observeCalls, navVars, brokerVars, flightVars, pickerVars, startupVars,
                 prefsVars, moreVars>>

\* stopPolling
StopPolling ==
  /\ pollingInterval # 0
  /\ Polling(TRUE)
  /\ UNCHANGED <<currentSession, selectedPhotos, albumInfo, localStorage, checks,
                 creating, mediaItemsSet, nextSessionId, reported, fetchedFor,
                 completedIds, lastCall, nextIntervalId, invoked, lastStore>>
  /\ UNCHANGED <<observeCalls, navVars, brokerVars, flightVars, pickerVars, startupVars,
                 prefsVars, moreVars>>

\* cleanup: stopPolling, then saveState
cleanup ==
  /\ Polling(TRUE)
  /\ localStorage' = saveState(currentSession, selectedPhotos, albumInfo, localStorage)
  /\ UNCHANGED <<currentSession, selectedPhotos, albumInfo, checks, creating,
                 mediaItemsSet, nextSessionId, reported, fetchedFor, completedIds,
                 lastCall, nextIntervalId, invoked, lastStore, observeCalls>>

Cleanup ==
  /\ cleanup
  /\ UNCHANGED <<navVars, brokerVars, flightVars, pickerVars, startupVars, prefsVars,
                 moreVars>>

\* the page is loaded again: the constructor's loadState; the calls that waited
\* and the intervals are gone with the old page
loadState ==
  /\ currentSession' = localStorage.currentSession
  /\ selectedPhotos' = localStorage.selectedPhotos
  /\ albumInfo' = localStorage.albumInfo
  /\ checks' = EmptyBag
  /\ creating' = FALSE
  /\ pollingInterval' = 0
  /\ intervals' = {}
  /\ nextIntervalId' = 1
  /\ UNCHANGED <<localStorage, mediaItemsSet, nextSessionId, reported, fetchedFor,
                 completedIds, lastCall, invoked, lastStore, observeCalls>>

ReloadManager ==
  /\ loadState
  /\ UNCHANGED <<navVars, brokerVars, flightVars, pickerVars, startupVars, prefsVars,
                 moreVars>>

SessionNext ==
  \/ CheckSessionStatus
  \/ \E i \in 1..MaxIntervals : IntervalTick(i)
  \/ \E c \in BagToSet(checks), ok \in BOOLEAN : PollReturns(c, ok)
  \/ \E c \in BagToSet(checks), ok \in BOOLEAN, empty \in BOOLEAN :
       PhotosReturn(c, ok, empty)
  \/ \E clearFirst \in BOOLEAN : StartAlbumSelection(clearFirst)
  \/ \E ok \in BOOLEAN : SessionCreated(ok)
  \/ \E id \in 1..MaxSessions : UserPicks(id)
  \/ StartPolling
  \/ StopPolling
  \/ Cleanup
  \/ ReloadManager

SessionSpec == Init /\ [][SessionNext]_vars

\* the same manager, its intervals and calls alone
PollingInit ==
  /\ NavInit /\ BrokerInit
  /\ FlightInit /\ PickerInit /\ StartupInit /\ PrefsInit /\ MoreInit
  /\ ManagerInit /\ observeCalls = FALSE

PollingSpec == PollingInit /\ [][SessionNext]_vars

\* C19: the current session has status "completed", with selectedPhotos and
\* albumInfo set, only after a poll of it reported mediaItemsSet and its photos
\* were fetched; a session that has been completed is never current with
\* another status; and a call of checkSessionStatus that finds no session or a
\* completed one sends no request
C19_CompletedOnlyAfterMediaItemsSet ==
  /\ (currentSession # None /\ currentSession[1].status = "completed") =>
       /\ currentSession[1].sessionId \in reported
       /\ currentSession[1].sessionId \in fetchedFor
       /\ selectedPhotos # None
       /\ albumInfo # None
  /\ (currentSession # None /\ currentSession[1].sessionId \in completedIds) =>
       currentSession[1].status = "completed"
  /\ lastCall.found \in {"no_session", "completed"} => ~lastCall.sent

----------------------------------------------------------------------------
(* main.js: the startup sequence *)

Envs ==
  [authSystem : {"none", "dashieAuth", "authManager"}, authenticated : BOOLEAN,
   googleToken : BOOLEAN, jwtReady : BOOLEAN, dataManager : BOOLEAN]

\* the rest of the page goes on while initializeApp waits: the user signs in or
\* out, services come up or go away
EnvChanges(e) ==
  /\ e # env
  /\ env' = e
  /\ UNCHANGED <<startupPc, initState, serviceChecks, servicesReady, triggered, seen,
                 overlayVisible>>
  /\ UNCHANGED <<navVars, moreVars, brokerVars, flightVars, pickerVars, sessionVars, prefsVars>>

\* waitForAuthentication: the poll that finds the auth system authenticated
\* and holding a Google access token; any other poll sleeps and polls again
WaitForAuthentication ==
  /\ startupPc = "waitForAuthentication"
  /\ env.authSystem # "none"
  /\ env.authenticated
  /\ env.googleToken
  /\ initState' = [initState EXCEPT !.auth = "ready"]
  /\ seen' = [seen EXCEPT !.authenticated = TRUE, !.googleToken = TRUE]
  /\ startupPc' = "initializeJWTService"
  /\ overlayVisible' = TRUE
  /\ UNCHANGED <<serviceChecks, servicesReady, triggered, env>>
  /\ UNCHANGED <<navVars, moreVars, brokerVars, flightVars, pickerVars, sessionVars, prefsVars>>

\* the return after a failed readiness validation without hideLoadingOverlay
overlayAtReturnDegradedKept(path, visible) ==
  IF path \in {"servicesFailed", "complete"} THEN FALSE ELSE visible

\* the overlay when initializeApp returns after showLoadingOverlay: every path
\* calls hideLoadingOverlay before it returns
overlayAtReturn(path, visible) ==
  IF path \in {"servicesFailed", "degraded", "complete"} THEN FALSE ELSE visible

\* initializeJWTService resolves true or false or rejects; when true and
\* dashieAuth is authenticated, initializeServices resolves or rejects
InitializeJWTService(result, servicesOk) ==
  /\ startupPc = "initializeJWTService"
  /\ IF result = "ready"
       THEN IF env.authSystem = "dashieAuth" /\ env.authenticated /\ ~servicesOk
              THEN /\ initState' = [initState EXCEPT !.jwt = "ready",
                                                     !.servicesReady = "failed"]
                   /\ startupPc' = "done"
                   /\ overlayVisible' = overlayAtReturn("servicesFailed", overlayVisible)
              ELSE /\ initState' = [initState EXCEPT !.jwt = "ready"]
                   /\ startupPc' = "processQueuedRefreshTokens"
                   /\ UNCHANGED overlayVisible
       ELSE /\ initState' = [initState EXCEPT !.jwt = "failed"]
            /\ startupPc' = "processQueuedRefreshTokens"
            /\ UNCHANGED overlayVisible
  /\ UNCHANGED <<serviceChecks, servicesReady, triggered, env, seen>>
  /\ UNCHANGED <<navVars, moreVars, brokerVars, flightVars, pickerVars, sessionVars, prefsVars>>

\* processQueuedRefreshTokens when the JWT service is ready, skipped otherwise
ProcessQueuedRefreshTokens(result) ==
  /\ startupPc = "processQueuedRefreshTokens"
  /\ initState' = [initState EXCEPT !.tokens = IF initState.jwt = "ready" THEN result
                                               ELSE "skipped"]
  /\ startupPc' = "autoInitialize"
  /\ UNCHANGED <<serviceChecks, servicesReady, triggered, env, seen>>
  /\ UNCHANGED overlayVisible
  /\ UNCHANGED <<navVars, moreVars, brokerVars, flightVars, pickerVars, sessionVars, prefsVars>>

\* autoInitialize resolves or rejects; then the 2 s wait for the widgets
AutoInitialize(ok) ==
  /\ startupPc = "autoInitialize"
  /\ initState' = [initState EXCEPT !.settings = IF ok THEN "ready" ELSE "degraded"]
  /\ startupPc' = "ensureServicesReady"
  /\ UNCHANGED <<serviceChecks, servicesReady, triggered, env, seen>>
  /\ UNCHANGED overlayVisible
  /\ UNCHANGED <<navVars, moreVars, brokerVars, flightVars, pickerVars, sessionVars, prefsVars>>

\* ensureServicesReady returns false
notReady(state, failed) ==
  /\ servicesReady' = "false"
  /\ initState' = IF failed THEN [state EXCEPT !.servicesReady = "failed"] ELSE state
  /\ startupPc' = "degraded"

\* ensureServicesReady up to its first wait: check 1 and the first look of check 2
EnsureServicesReady ==
  /\ startupPc = "ensureServicesReady"
  /\ IF env.authSystem = "none" \/ ~env.authenticated
       THEN /\ notReady(initState, FALSE)
            /\ serviceChecks' = NoChecks
            /\ UNCHANGED seen
       ELSE /\ serviceChecks' = [NoChecks EXCEPT !.auth = TRUE, !.jwt = env.jwtReady]
            /\ seen' = [seen EXCEPT !.ensureAuth = TRUE, !.jwtReady = env.jwtReady]
            /\ startupPc' = IF env.jwtReady THEN "getValidToken" ELSE "jwtWait"
            /\ UNCHANGED <<initState, servicesReady>>
  /\ UNCHANGED <<triggered, env>>
  /\ UNCHANGED overlayVisible
  /\ UNCHANGED <<navVars, moreVars, brokerVars, flightVars, pickerVars, sessionVars, prefsVars>>

\* one turn of the loop that waits for the JWT service (a turn that finds
\* neither sleeps 500 ms); timedOut: 10 s have passed
JwtWait(timedOut) ==
  /\ startupPc = "jwtWait"
  /\ IF timedOut
       THEN /\ notReady(initState, TRUE)
            /\ UNCHANGED <<serviceChecks, seen>>
       ELSE /\ env.jwtReady
            /\ serviceChecks' = [serviceChecks EXCEPT !.jwt = TRUE]
            /\ seen' = [seen EXCEPT !.jwtReady = TRUE]
            /\ startupPc' = "getValidToken"
            /\ UNCHANGED <<initState, servicesReady>>
  /\ UNCHANGED <<triggered, env>>
  /\ UNCHANGED overlayVisible
  /\ UNCHANGED <<navVars, moreVars, brokerVars, flightVars, pickerVars, sessionVars, prefsVars>>

\* what window.jwtAuth.getValidToken resolves with, or that it rejects
TokenResults == {"rejects", "null", "failure", "noAccessToken", "accessToken"}

\* the data manager is not looked for
dataManagerReadyAlways(e) == TRUE

\* !window.dataManager fails check 4
dataManagerReady(e) == e.dataManager

\* getValidToken settles: check 3, then check 4 and the return
ValidateToken(tokenResult) ==
  /\ startupPc = "getValidToken"
  /\ IF tokenResult # "accessToken"
       THEN /\ notReady(initState, TRUE)
            /\ UNCHANGED <<serviceChecks, seen>>
       ELSE /\ seen' = [seen EXCEPT !.accessToken = TRUE, !.dataManager = env.dataManager]
            /\ IF dataManagerReady(env)
                 THEN /\ serviceChecks' = [serviceChecks EXCEPT !.token = TRUE,
                                                                !.dataManager = TRUE]
                      /\ initState' = [initState EXCEPT !.servicesReady = "ready"]
                      /\ servicesReady' = "true"
                      /\ startupPc' = "triggerDataLoading"
                 ELSE /\ serviceChecks' = [serviceChecks EXCEPT !.token = TRUE]
                      /\ notReady(initState, TRUE)
  /\ UNCHANGED <<triggered, env>>
  /\ UNCHANGED overlayVisible
  /\ UNCHANGED <<navVars, moreVars, brokerVars, flightVars, pickerVars, sessionVars, prefsVars>>

\* await window.dashieAuth.triggerDataLoading(), in its try: without
\* window.dashieAuth the call is a TypeError the catch swallows
TriggerDataLoading ==
  /\ startupPc = "triggerDataLoading"
  /\ triggered' = (env.authSystem = "dashieAuth")
  /\ startupPc' = "complete"
  /\ UNCHANGED <<initState, serviceChecks, servicesReady, env, seen>>
  /\ UNCHANGED overlayVisible
  /\ UNCHANGED <<navVars, moreVars, brokerVars, flightVars, pickerVars, sessionVars, prefsVars>>

\* the end of initializeApp, on the full path and on the degraded one
FinishStartup ==
  /\ startupPc \in {"complete", "degraded"}
  /\ initState' = IF startupPc = "complete" THEN [initState EXCEPT !.widgets = "ready"]
                                            ELSE initState
  /\ startupPc' = "done"
  /\ overlayVisible' = overlayAtReturn(startupPc, overlayVisible)
  /\ UNCHANGED <<serviceChecks, servicesReady, triggered, env, seen>>
  /\ UNCHANGED <<navVars, moreVars, brokerVars, flightVars, pickerVars, sessionVars, prefsVars>>

\* the page is loaded again and initializeApp runs anew
Restart ==
  /\ startupPc = "done"
  /\ startupPc' = "waitForAuthentication"
  /\ initState' = PendingInitState
  /\ serviceChecks' = NoChecks
  /\ servicesReady' = "none"
  /\ triggered' = FALSE
  /\ env' = [authSystem |-> "none", authenticated |-> FALSE, googleToken |-> FALSE,
             jwtReady |-> FALSE, dataManager |-> FALSE]
  /\ seen' = NothingSeen
  /\ overlayVisible' = FALSE
  /\ UNCHANGED <<navVars, moreVars, brokerVars, flightVars, pickerVars, sessionVars, prefsVars>>

StartupNext ==
  \/ \E e \in Envs : EnvChanges(e)
  \/ WaitForAuthentication
  \/ \E result \in {"ready", "notReady", "rejects"}, servicesOk \in BOOLEAN :
       InitializeJWTService(result, servicesOk)
  \/ \E result \in {"ready", "failed", "skipped"} : ProcessQueuedRefreshTokens(result)
  \/ \E ok \in BOOLEAN : AutoInitialize(ok)
  \/ EnsureServicesReady
  \/ \E timedOut \in BOOLEAN : JwtWait(timedOut)
  \/ \E tokenResult \in TokenResults : ValidateToken(tokenResult)
  \/ TriggerDataLoading
  \/ FinishStartup
  \/ Restart

StartupSpec == Init /\ [][StartupNext]_vars

\* initializeApp once the overlay is shown: each awaited call settles and each
\* timer fires
AfterAuthentication ==
  \/ \E result \in {"ready", "notReady", "rejects"}, servicesOk \in BOOLEAN :
       InitializeJWTService(result, servicesOk)
  \/ \E result \in {"ready", "failed", "skipped"} : ProcessQueuedRefreshTokens(result)
  \/ \E ok \in BOOLEAN : AutoInitialize(ok)
  \/ EnsureServicesReady
  \/ \E timedOut \in BOOLEAN : JwtWait(timedOut)
  \/ \E tokenResult \in TokenResults : ValidateToken(tokenResult)
  \/ TriggerDataLoading
  \/ FinishStartup

StartupLiveSpec == Init /\ [][StartupNext]_vars /\ WF_vars(AfterAuthentication)

\* C20: triggerDataLoading is called only after waitForAuthentication found the
\* auth system authenticated with a Google access token and ensureServicesReady
\* returned true, having found the auth system authenticated, the JWT service
\* ready, an access_token in a successful getValidToken and window.dataManager;
\* in a run where a gate failed it is never called
C20_DataLoadingBehindGates ==
  /\ triggered =>
       /\ initState.auth = "ready"
       /\ seen.authenticated /\ seen.googleToken
       /\ servicesReady = "true"
       /\ initState.servicesReady = "ready"
       /\ seen.ensureAuth /\ seen.jwtReady /\ seen.accessToken /\ seen.dataManager
       /\ serviceChecks = [auth |-> TRUE, jwt |-> TRUE, token |-> TRUE,
                           dataManager |-> TRUE]
  /\ (servicesReady = "false" \/ initState.servicesReady = "failed"
      \/ initState.auth # "ready") => ~triggered

\* C20 witness: data loading was triggered in a run whose JWT service was not
\* ready when first initialized and came up by the time the gates looked
C20_Witness ==
  /\ triggered
  /\ initState.jwt = "failed"
  /\ servicesReady = "true"
  /\ startupPc = "done"

----------------------------------------------------------------------------
(* settings.js: settings persistence *)

Themes == {"dark", "light"}
TransitionTimes == {15, 30}
SettingsObject == [theme : Themes, photoTransitionTime : TransitionTimes]

\* what the cloud may hold: an object with some of the keys
SavedSettings ==
  [theme : Themes] \cup [photoTransitionTime : TransitionTimes] \cup SettingsObject

\* Object.assign(target, source)
assign(target, source) == source @@ target

\* localStorage.setItem('dashie-settings', JSON.stringify(object)), when it
\* does not throw
stored(object) == [kind |-> "json", value |-> object]

\* loadSettingsLocal: the settings it leaves
loadSettingsLocal(object, item, theme) ==
  IF item.kind = "none" THEN object
  ELSE IF item.kind = "corrupt" THEN assign(object, defaultSettings)
  ELSE [assign(object, item.value) EXCEPT !.theme = theme]

\* the catch of saveSettings gives up
saveFallbackNone(object, item, ok) == item

\* the catch of saveSettings: the item after its setItem, which throws or not
saveFallback(object, item, ok) == IF ok THEN stored(object) ELSE item

\* initializeSupabaseSettings for a signed-in user, up to the wait of loadSettings
InitializeSupabaseSettings ==
  /\ settingsCall.pc # "await"
  /\ supabaseStorage' = TRUE
  /\ settingsCall' = [NoSettingsCall EXCEPT !.fn = "loadSettings", !.pc = "await"]
  /\ UNCHANGED <<appSettings, dashieSettings, cloudSettings, currentTheme>>
  /\ UNCHANGED <<navVars, moreVars, brokerVars, flightVars, pickerVars, sessionVars, startupVars>>

\* loadSettings is called: it waits for the cloud, or without a storage instance
\* loads from local storage at once
LoadSettings ==
  /\ settingsCall.pc # "await"
  /\ IF supabaseStorage
       THEN /\ settingsCall' = [NoSettingsCall EXCEPT !.fn = "loadSettings",
                                                      !.pc = "await"]
            /\ UNCHANGED appSettings
       ELSE /\ settingsCall' = [NoSettingsCall EXCEPT !.fn = "loadSettings",
                                                      !.pc = "done", !.local = "read",
                                                      !.ended = "resolved"]
            /\ appSettings' = loadSettingsLocal(appSettings, dashieSettings, currentTheme)
  /\ UNCHANGED <<dashieSettings, cloudSettings, currentTheme, supabaseStorage>>
  /\ UNCHANGED <<navVars, moreVars, brokerVars, flightVars, pickerVars, sessionVars, startupVars>>

\* supabaseStorage.loadSettings settles: it rejects, or resolves with what the
\* cloud holds
LoadSettled(ok) ==
  /\ settingsCall.fn = "loadSettings"
  /\ settingsCall.pc = "await"
  /\ IF ok /\ cloudSettings # None
       THEN LET savedSettings == cloudSettings[1] IN
            /\ appSettings' = assign(appSettings, savedSettings)
            /\ currentTheme' = IF "theme" \in DOMAIN savedSettings
                                 THEN savedSettings.theme ELSE currentTheme
            /\ settingsCall' = [settingsCall EXCEPT !.pc = "done", !.cloud = "loaded",
                                                    !.ended = "resolved"]
       ELSE /\ appSettings' = loadSettingsLocal(appSettings, dashieSettings, currentTheme)
            /\ settingsCall' = [settingsCall EXCEPT
                                  !.pc = "done", !.local = "read", !.ended = "resolved",
                                  !.cloud = IF ok THEN "nothing" ELSE "threw"]
            /\ UNCHANGED currentTheme
  /\ UNCHANGED <<dashieSettings, cloudSettings, supabaseStorage>>
  /\ UNCHANGED <<navVars, moreVars, brokerVars, flightVars, pickerVars, sessionVars, startupVars>>

\* saveSettings is called: it waits for the cloud, or without a storage instance
\* writes the item, and once more in the catch if that throws
SaveSettings(ok, retryOk) ==
  /\ settingsCall.pc # "await"
  /\ LET object == [appSettings EXCEPT !.theme = currentTheme] IN
     /\ appSettings' = object
     /\ IF supabaseStorage
          THEN /\ settingsCall' = [NoSettingsCall EXCEPT !.fn = "saveSettings",
                                                         !.pc = "await"]
               /\ UNCHANGED dashieSettings
          ELSE /\ dashieSettings' = IF ok THEN stored(object)
                                    ELSE saveFallback(object, dashieSettings, retryOk)
               /\ settingsCall' = [NoSettingsCall EXCEPT
                                     !.fn = "saveSettings", !.pc = "done",
                                     !.ended = "resolved",
                                     !.local = IF ok \/ retryOk THEN "written" ELSE "threw"]
  /\ UNCHANGED <<cloudSettings, currentTheme, supabaseStorage>>
  /\ UNCHANGED <<navVars, moreVars, brokerVars, flightVars, pickerVars, sessionVars, startupVars>>

\* supabaseStorage.saveSettings settles: it resolves, or rejects and the catch
\* writes the item
SaveSettled(ok, localOk) ==
  /\ settingsCall.fn = "saveSettings"
  /\ settingsCall.pc = "await"
  /\ IF ok
       THEN /\ cloudSettings' = Some(appSettings)
            /\ settingsCall' = [settingsCall EXCEPT !.pc = "done", !.cloud = "saved",
                                                    !.ended = "resolved"]
            /\ UNCHANGED dashieSettings
       ELSE /\ dashieSettings' = saveFallback(appSettings, dashieSettings, localOk)
            /\ settingsCall' = [settingsCall EXCEPT
                                  !.pc = "done", !.cloud = "threw", !.ended = "resolved",
                                  !.local = IF localOk THEN "written" ELSE "threw"]
            /\ UNCHANGED cloudSettings
  /\ UNCHANGED <<appSettings, currentTheme, supabaseStorage>>
  /\ UNCHANGED <<navVars, moreVars, brokerVars, flightVars, pickerVars, sessionVars, startupVars>>

\* the user changes a setting in the modal
ChangeSetting(value) ==
  /\ value # appSettings.photoTransitionTime
  /\ appSettings' = [appSettings EXCEPT !.photoTransitionTime = value]
  /\ UNCHANGED <<dashieSettings, cloudSettings, currentTheme, supabaseStorage,
                 settingsCall>>
  /\ UNCHANGED <<navVars, moreVars, brokerVars, flightVars, pickerVars, sessionVars, startupVars>>

\* the theme is switched
SwitchTheme(theme) ==
  /\ theme # currentTheme
  /\ currentTheme' = theme
  /\ UNCHANGED <<appSettings, dashieSettings, cloudSettings, supabaseStorage,
                 settingsCall>>
  /\ UNCHANGED <<navVars, moreVars, brokerVars, flightVars, pickerVars, sessionVars, startupVars>>

\* another device saves settings and the subscription of setupRealTimeSync fires
RealTimeSync(newSettings) ==
  /\ supabaseStorage
  /\ cloudSettings' = Some(newSettings)
  /\ appSettings' = assign(appSettings, newSettings)
  /\ currentTheme' = IF "theme" \in DOMAIN newSettings THEN newSettings.theme
                     ELSE currentTheme
  /\ UNCHANGED <<dashieSettings, supabaseStorage, settingsCall>>
  /\ UNCHANGED <<navVars, moreVars, brokerVars, flightVars, pickerVars, sessionVars, startupVars>>

\* the page starts with whatever an earlier visit left in the item
PrefsStart ==
  /\ NavInit /\ BrokerInit /\ FlightInit /\ PickerInit /\ SessionInit /\ StartupInit
  /\ MoreInit
  /\ appSettings = defaultSettings
  /\ dashieSettings \in {[kind |-> "none"], [kind |-> "corrupt"]} \cup
                        {stored(o) : o \in SettingsObject}
  /\ cloudSettings = None
  /\ currentTheme \in Themes
  /\ supabaseStorage = FALSE
  /\ settingsCall = NoSettingsCall

PrefsNext ==
  \/ InitializeSupabaseSettings
  \/ LoadSettings
  \/ \E ok \in BOOLEAN : LoadSettled(ok)
  \/ \E ok \in BOOLEAN, retryOk \in BOOLEAN : SaveSettings(ok, retryOk)
  \/ \E ok \in BOOLEAN, localOk \in BOOLEAN : SaveSettled(ok, localOk)
  \/ \E value \in TransitionTimes : ChangeSetting(value)
  \/ \E theme \in Themes : SwitchTheme(theme)
  \/ \E newSettings \in SavedSettings : RealTimeSync(newSettings)

PrefsSpec == PrefsStart /\ [][PrefsNext]_vars

\* C21: a call of saveSettings whose cloud save throws writes the settings
\* object to the item 'dashie-settings'; a call of loadSettings whose cloud load
\* throws or returns nothing loads from local storage; and neither call ends
\* by throwing to its caller
C21_LocalFallback ==
  [][(settingsCall' # settingsCall /\ settingsCall'.pc = "done") =>
       /\ settingsCall'.ended = "resolved"
       /\ (/\ settingsCall'.fn = "saveSettings"
           /\ settingsCall'.cloud = "threw"
           /\ settingsCall'.local = "written")
            => dashieSettings' = [kind |-> "json", value |-> appSettings']
       /\ (/\ settingsCall'.fn = "loadSettings"
           /\ settingsCall'.cloud \in {"threw", "nothing"})
            => /\ settingsCall'.local = "read"
               /\ dashieSettings.kind = "json" =>
                    /\ appSettings'.photoTransitionTime =
                         dashieSettings.value.photoTransitionTime
                    /\ appSettings'.theme = currentTheme
               /\ dashieSettings.kind = "none" => appSettings' = appSettings]_vars

\* C21 witness: the cloud save threw and the item holds settings other than the
\* defaults, the ones the call was saving
C21_Witness ==
  /\ settingsCall.fn = "saveSettings"
  /\ settingsCall.pc = "done"
  /\ settingsCall.cloud = "threw"
  /\ dashieSettings = [kind |-> "json",
                       value |-> [theme |-> "light", photoTransitionTime |-> 30]]
  /\ appSettings = [theme |-> "light", photoTransitionTime |-> 30]
  /\ cloudSettings = None

----------------------------------------------------------------------------
(* state.js: the widgets array *)

\* C22: the id, row, col, rowSpan, colSpan and focusScale of every widget never
\* change, no widget but "main" has its url or label changed, and the url of
\* the main widget is widgetUrls[state.currentMain]
C22_LayoutFixedButMain ==
  /\ DOMAIN layout = DOMAIN widgets
  /\ \A i \in DOMAIN layout :
       /\ layout[i].id = widgets[i].id
       /\ layout[i].row = widgets[i].row
       /\ layout[i].col = widgets[i].col
       /\ layout[i].rowSpan = widgets[i].rowSpan
       /\ layout[i].colSpan = widgets[i].colSpan
       /\ layout[i].focusScale = widgetsAtLoad[i].focusScale
       /\ layout[i].id # "main" => layout[i] = widgetsAtLoad[i]
       /\ layout[i].id = "main" => layout[i].url = widgetUrls[currentMain]

\* C22 witness: the menu has switched the main tile to the map and a widget is
\* focused since
C22_Witness ==
  /\ currentMain = "map"
  /\ layout[3].url = "/widgets/map/map.html"
  /\ layout[3].label = "Map"
  /\ selectedCell # Null

----------------------------------------------------------------------------
(* navigation.js: the inactivity timer and the focus mode *)

\* C23: whenever an inactivity timer is pending, it is the 60 s timer if
\* state.selectedCell is set and the 20 s timer if no widget is focused
C23_TimerMatchesFocusMode ==
  highlightTimer # 0 =>
    highlightTimer = (IF selectedCell # Null THEN TIMEOUT_FOCUS ELSE TIMEOUT_SELECTION)

----------------------------------------------------------------------------
(* navigation.js: commands to the focused widget *)

\* the iframe a message was posted to is that of the tile cell
postedTo(message, cell) == message.row = cell.row /\ message.col = cell.col

\* C24: while a widget is focused (not asleep, no dialog), moveFocus(dir) posts
\* exactly one {action: dir} to the iframe of selectedCell and leaves focus,
\* selectedCell and currentMain as they are; no step posts a message to the
\* iframe of a widget other than the selected cell
C24_DirectionsGoToSelectedCell ==
  [][/\ \A dir \in Dirs :
          (MoveFocus(dir) /\ selectedCell # Null /\ ~isAsleep /\ ~confirmDialog)
            => /\ posted' = <<[row |-> selectedCell.row, col |-> selectedCell.col,
                               action |-> dir]>>
               /\ focus' = focus
               /\ selectedCell' = selectedCell
               /\ currentMain' = currentMain
     /\ \A n \in 1..Len(posted') :
          \/ selectedCell # Null /\ postedTo(posted'[n], selectedCell)
          \/ selectedCell' # Null /\ postedTo(posted'[n], selectedCell')]_vars

----------------------------------------------------------------------------
(* navigation.js, state.js: grid positions and menu indexes *)

\* the (row, col) origins of the widgets
Origins == {<<widgets[i].row, widgets[i].col>> : i \in 1..Len(widgets)}

\* C25: every grid focus is the (row, col) origin of a widget, so findWidget
\* finds a widget for it: the positions are (1,1), (1,2), (2,1), (2,2) and
\* (3,2), and (3,1) is never the focus
C25_GridFocusIsWidgetOrigin ==
  focus.type = "grid" =>
    /\ <<focus.row, focus.col>> \in Origins
    /\ <<focus.row, focus.col>> \in {<<1, 1>>, <<1, 2>>, <<2, 1>>, <<2, 2>>, <<3, 2>>}
    /\ findWidget(focus.row, focus.col) # {}

\* C25 witness: Enter on the last row, reached from the main tile's column,
\* has found the photos widget
C25_Witness ==
  /\ focus = [type |-> "grid", row |-> 3, col |-> 2]
  /\ selectedCell = [row |-> 3, col |-> 2, attached |-> TRUE]
  /\ posted = <<[row |-> 3, col |-> 2, action |-> "focus"]>>

\* C26: whenever state.focus.type is "menu", focus.index is an integer in 0..6
C26_MenuIndexInRange ==
  focus.type = "menu" => focus.index \in 0..6

\* C26 witness: the last entry of the expanded sidebar has the focus
C26_Witness ==
  focus = [type |-> "menu", index |-> 6] /\ sidebarExpanded /\ highlightTimer # 0

----------------------------------------------------------------------------
(* navigation.js: the handlers while asleep or in a dialog *)

\* C27: while state.isAsleep is true or state.confirmDialog is set, moveFocus,
\* handleEnter, handleBack and openMenuWithCurrentSelection leave focus,
\* selectedCell and currentMain unchanged, post no message to a widget, and
\* neither change the visibility of the highlights nor restart the timer
C27_HandlersIdleWhileAsleepOrDialog ==
  [][(/\ isAsleep \/ confirmDialog
      /\ \/ \E dir \in Dirs : MoveFocus(dir)
         \/ HandleEnter
         \/ HandleBack
         \/ OpenMenuWithCurrentSelection)
       => /\ focus' = focus
          /\ selectedCell' = selectedCell
          /\ currentMain' = currentMain
          /\ posted' = <<>>
          /\ isHighlightVisible' = isHighlightVisible
          /\ highlightsHidden' = highlightsHidden
          /\ highlightTimer' = highlightTimer]_vars

----------------------------------------------------------------------------
(* navigation.js: the highlights and their timer *)

\* C28: the body has the class highlights-hidden exactly when
\* isHighlightVisible is false; whenever the highlights are visible an
\* inactivity timer is pending; and unless input keeps arriving, visible
\* highlights are eventually hidden
C28_VisibleHighlightsAreTimed ==
  /\ [](highlightsHidden = ~isHighlightVisible)
  /\ [](isHighlightVisible => highlightTimer # 0)
  /\ \/ []<><<UserInput>>_vars
     \/ [](isHighlightVisible => <>(~isHighlightVisible /\ highlightsHidden))

\* C28 witness: an input has shown the highlights and the 20 s timer runs
C28_Witness ==
  /\ isHighlightVisible /\ ~highlightsHidden
  /\ highlightTimer = TIMEOUT_SELECTION
  /\ selectedCell = Null

----------------------------------------------------------------------------
(* jwt-auth/index.ts: the precedence of the access decision *)

\* C29: with the tables read, maintenance_mode = 'true' denies every email with
\* reason maintenance_mode; otherwise beta mode decides by whitelist membership
\* (tier beta); otherwise trial_enabled = 'true' allows with tier trial;
\* otherwise access is denied with reason access_disabled; and a read that
\* fails denies access
C29_AccessPrecedence ==
  [][\A email \in Emails, configRead \in ConfigReads, whitelistRead \in WhitelistReads :
       CheckUserAccess(email, configRead, whitelistRead)
       => LET config == access_control_config
              beta == ~isTrue(config, "maintenance_mode") /\ isTrue(config, "beta_mode_enabled")
          IN IF configRead # "ok" \/ (beta /\ whitelistRead # "ok")
               THEN ~accessCheck'.allowed
             ELSE IF isTrue(config, "maintenance_mode")
               THEN accessCheck' = [allowed |-> FALSE, reason |-> "maintenance_mode"]
             ELSE IF beta
               THEN IF email \in DOMAIN beta_whitelist
                      THEN accessCheck'.allowed /\ accessCheck'.tier = "beta"
                      ELSE ~accessCheck'.allowed
             ELSE IF isTrue(config, "trial_enabled")
               THEN accessCheck'.allowed /\ accessCheck'.tier = "trial"
             ELSE accessCheck' = [allowed |-> FALSE, reason |-> "access_disabled"]]_vars

\* C29 witness: under maintenance with beta mode and trials enabled, a
\* whitelisted email was turned away for maintenance
C29_Witness ==
  /\ request = [operation |-> "checkUserAccess", email |-> "bob@example.com"]
  /\ isTrue(access_control_config, "maintenance_mode")
  /\ isTrue(access_control_config, "beta_mode_enabled")
  /\ isTrue(access_control_config, "trial_enabled")
  /\ "bob@example.com" \in DOMAIN beta_whitelist
  /\ accessCheck = [allowed |-> FALSE, reason |-> "maintenance_mode"]

----------------------------------------------------------------------------
(* jwt-auth/index.ts: requests answered with an error *)

\* C30: a request answered with status 400, 401, 403 or 500 leaves the auth
\* users, user_profiles, user_settings and user_auth_tokens as they were
C30_ErrorResponseWritesNothing ==
  [][(request'.operation # "none" /\ response'.status \in {400, 401, 403, 500})
       => /\ auth_users' = auth_users
          /\ user_profiles' = user_profiles
          /\ user_settings' = user_settings
          /\ user_auth_tokens' = user_auth_tokens]_vars

----------------------------------------------------------------------------
(* jwt-auth/index.ts: account storage as a nested map *)

StoredProviders == {"google", "outlook"}
StoredAccountTypes == {"primary", "secondary"}

\* one store_tokens, remove_account or list_accounts request of the signed-in
\* user, served alone; dbError: the write returned an error
AccountRequest(operation, provider, accountType, dbError) ==
  LET r == IF operation = "store_tokens"
             THEN handleStoreTokensOperation(user_auth_tokens, now, FlightUser,
                                             FlightTokenData, provider, accountType, dbError)
           ELSE IF operation = "remove_account"
             THEN handleRemoveAccountOperation(user_auth_tokens, FlightUser, provider,
                                               accountType, dbError)
           ELSE [table |-> user_auth_tokens,
                 response |-> handleListAccountsOperation(user_auth_tokens, FlightUser)]
  IN /\ user_auth_tokens' = r.table
     /\ response' = r.response
     /\ request' = [operation |-> operation, provider |-> provider,
                    account_type |-> accountType, dbError |-> dbError]
     /\ UNCHANGED <<now, user_settings, access_control_config, beta_whitelist, upstream,
                    accessCheck, lastSaved>>
     /\ UNCHANGED <<navVars, serveVars, restVars>>

AccountsNext ==
  \/ \E operation \in {"store_tokens", "remove_account", "list_accounts"},
        provider \in StoredProviders, accountType \in StoredAccountTypes,
        dbError \in BOOLEAN :
       AccountRequest(operation, provider, accountType, dbError)
  \/ Tick

AccountsSpec == Init /\ [][AccountsNext]_vars

\* the (provider, account_type) pairs list_accounts would answer with
listed(table) ==
  {<<a.provider, a.account_type>> :
     a \in handleListAccountsOperation(table, FlightUser).accounts}

\* the stored record of an account, None when it is not stored
accountOf(table, provider, accountType) ==
  IF hasAccount(table, FlightUser, provider, accountType)
    THEN Some(table[FlightUser][provider][accountType])
    ELSE None

\* the claim on the steps that serve a request, for these outcomes of the write
NestedMapOn(writes) ==
     (/\ now' = now
      /\ request'.operation \in {"store_tokens", "remove_account"}
      /\ request'.dbError \in writes)
       => LET p == request'.provider
              a == request'.account_type
              others == (StoredProviders \X StoredAccountTypes) \ {<<p, a>>}
          IN /\ request'.operation = "store_tokens" =>
                  /\ <<p, a>> \in listed(user_auth_tokens')
                  /\ \A o \in others : accountOf(user_auth_tokens', o[1], o[2])
                                         = accountOf(user_auth_tokens, o[1], o[2])
             /\ (request'.operation = "remove_account" /\ <<p, a>> \in listed(user_auth_tokens)) =>
                  /\ response'.removed
                  /\ <<p, a>> \notin listed(user_auth_tokens')
                  /\ \A o \in others : accountOf(user_auth_tokens', o[1], o[2])
                                         = accountOf(user_auth_tokens, o[1], o[2])
                  /\ \A q \in DOMAIN user_auth_tokens'[FlightUser] :
                       DOMAIN user_auth_tokens'[FlightUser][q] # {}
             /\ (request'.operation = "remove_account" /\ <<p, a>> \notin listed(user_auth_tokens)) =>
                  /\ ~response'.removed
                  /\ user_auth_tokens' = user_auth_tokens

\* C31: after store_tokens for (provider, accountType) list_accounts contains
\* the account; after a remove_account answered removed: true it does not, the
\* other accounts are unchanged and no provider is left without accounts;
\* remove_account of an account that is not stored answers removed: false and
\* changes nothing
C31_AccountsAreANestedMap == [][NestedMapOn(BOOLEAN)]_vars

\* the same on the requests whose write to user_auth_tokens went through
NestedMapWhenWritten == [][NestedMapOn({FALSE})]_vars

----------------------------------------------------------------------------
(* picker-session-manager.js: polling, callbacks and the stored state *)

\* C33: for each picker session onPhotosSelected and onSelectionComplete are
\* invoked at most once, also when calls of checkSessionStatus overlap
C33_CallbacksOncePerSession ==
  \A id \in 1..MaxSessions : CopiesIn(id, invoked) <= 1

\* C34: the photos stored and the status "completed" belong to the session the
\* call polled: they are not stored into a cleared state and not attributed
\* to a newer session
C34_PhotosOfThePolledSession ==
  lastStore.polled # 0 =>
    /\ lastStore.fetched = lastStore.polled
    /\ lastStore.into = lastStore.polled

\* C35: after saveState a newly constructed manager loads the currentSession,
\* selectedPhotos and albumInfo of the saving one, also when the latest
\* selection is empty
C35_SavedStateIsLoaded ==
  [][Cleanup => /\ localStorage'.currentSession = currentSession'
                /\ localStorage'.selectedPhotos = selectedPhotos'
                /\ localStorage'.albumInfo = albumInfo']_vars

\* a call made by the interval callback returns "completed" or "error"
PollingCheckEnds ==
  \/ \E c \in BagToSet(checks) :
       /\ c.polling
       /\ \/ PollReturns(c, FALSE)
          \/ currentSession = None /\ PollReturns(c, TRUE)
          \/ \E ok, empty \in BOOLEAN : PhotosReturn(c, ok, empty)
  \/ /\ \E i \in 1..MaxIntervals : IntervalTick(i)
     /\ currentSession # None
     /\ skipsPoll(currentSession)

OnePollingInterval ==
  /\ Cardinality(intervals') <= 1
  /\ intervals' \subseteq {pollingInterval'}
  /\ StartPolling /\ skipsPoll(currentSession) => intervals' = {}
  /\ PollingCheckEnds => intervals' = {}
  /\ StopPolling \/ StartAlbumSelection(TRUE) => intervals' = {}
  /\ (\E c \in BagToSet(checks') :
        c.polling /\ c.pc = "poll" /\ CopiesIn(c, checks') > CopiesIn(c, checks)) =>
       pollingInterval \in intervals

\* C32: at most one polling interval is active: startPolling clears the
\* previous one and starts none without an open session, polling stops when a
\* check returns "completed" or "error", and after stopPolling or
\* clearAndSelectNew no interval is left to start a check
C32_AtMostOnePollingInterval == [][OnePollingInterval]_vars

\* a second startPolling has replaced the first interval while a call made by
\* the interval callback waits for its response
C32_Witness ==
  /\ pollingInterval = 2
  /\ intervals = {2}
  /\ \E c \in BagToSet(checks) : c.polling

----------------------------------------------------------------------------
(* navigation.js: initializeApp and the loading overlay *)

\* C36: once the loading overlay has been shown initializeApp returns, on
\* every path, and the overlay is hidden when it has returned
C36_OverlayHiddenAtReturn ==
  /\ [](startupPc = "done" => ~overlayVisible)
  /\ (overlayVisible ~> (startupPc = "done" /\ ~overlayVisible))

\* initializeApp has returned after a failed readiness validation, the overlay
\* hidden
C36_Witness ==
  /\ startupPc = "done"
  /\ initState.auth = "ready"
  /\ servicesReady = "false"
  /\ ~overlayVisible

----------------------------------------------------------------------------
(* auth-manager.js: signing out *)

\* isAuthenticated()
isAuthenticated == isSignedIn /\ currentUser

\* this.pickerSessionManager is left as it is
cleanedUpNever(manager) == manager

\* if (this.pickerSessionManager) { cleanup(); this.pickerSessionManager = null }
cleanedUp(manager) == FALSE

otherVars ==
  <<navVars, brokerVars, flightVars, pickerVars, startupVars, prefsVars, sleepVars,
    modalVars>>

\* init: cognitoAuth.init settles. user: it resolved with a user, or it failed
\* and a saved user is used; token: the user has a Google access token;
\* failed: it threw, and initializeGoogleAPIs is not called
InitSettles(user, token, failed) ==
  /\ authPc = "init"
  /\ authPc' = "idle"
  /\ currentUser' = user
  /\ isSignedIn' = user
  /\ googleToken' = (user /\ token)
  /\ pickerSessionManager' = (user /\ token /\ ~failed)
  /\ UNCHANGED <<refreshing, signOutEnded>>
  /\ UNCHANGED <<sessionVars, otherVars>>

\* signOut up to its await of cognitoAuth.signOut
SignOutStarts ==
  /\ authPc = "idle"
  /\ authPc' = "signOut"
  /\ IF pickerSessionManager THEN cleanup ELSE UNCHANGED sessionVars
  /\ pickerSessionManager' = cleanedUp(pickerSessionManager)
  /\ signOutEnded' = "none"
  /\ UNCHANGED <<currentUser, isSignedIn, googleToken, refreshing>>
  /\ UNCHANGED otherVars

\* cognitoAuth.signOut resolves, or it throws and the catch clears the state
SignOutSettles(ok) ==
  /\ authPc = "signOut"
  /\ authPc' = "idle"
  /\ currentUser' = FALSE
  /\ isSignedIn' = FALSE
  /\ googleToken' = FALSE
  /\ IF ~ok /\ pickerSessionManager
       THEN cleanup /\ pickerSessionManager' = cleanedUp(pickerSessionManager)
       ELSE UNCHANGED <<sessionVars, pickerSessionManager>>
  /\ signOutEnded' = IF ok THEN "signedOut" ELSE "failed"
  /\ UNCHANGED refreshing
  /\ UNCHANGED otherVars

\* refreshGoogleAccessToken is called by an API client
RefreshStarts ==
  /\ authPc # "init"
  /\ ~refreshing
  /\ refreshing' = TRUE
  /\ UNCHANGED <<authPc, currentUser, isSignedIn, googleToken, pickerSessionManager,
                 signOutEnded>>
  /\ UNCHANGED <<sessionVars, otherVars>>

\* refreshSession settles; ok: it succeeded and Cognito holds a Google token
RefreshSettles(ok) ==
  /\ refreshing
  /\ refreshing' = FALSE
  /\ googleToken' = (ok \/ googleToken)
  /\ UNCHANGED <<authPc, currentUser, isSignedIn, pickerSessionManager, signOutEnded>>
  /\ UNCHANGED <<sessionVars, otherVars>>

\* signIn redirects to Google: the page is loaded again, a new AuthManager is
\* constructed and a PickerSessionManager it creates loads the stored state
SignIn ==
  /\ authPc = "idle"
  /\ ~isSignedIn
  /\ authPc' = "init"
  /\ currentUser' = FALSE
  /\ isSignedIn' = FALSE
  /\ googleToken' = FALSE
  /\ pickerSessionManager' = FALSE
  /\ refreshing' = FALSE
  /\ signOutEnded' = "none"
  /\ loadState
  /\ UNCHANGED otherVars

\* the calls of the page that start a session and poll it reach the manager
\* while there is one; calls that wait and intervals go on without it
AuthNext ==
  \/ \E user, token, failed \in BOOLEAN : InitSettles(user, token, failed)
  \/ SignOutStarts
  \/ \E ok \in BOOLEAN : SignOutSettles(ok)
  \/ RefreshStarts
  \/ \E ok \in BOOLEAN : RefreshSettles(ok)
  \/ SignIn
  \/ pickerSessionManager /\ StartAlbumSelection(FALSE)
  \/ pickerSessionManager /\ StartPolling
  \/ \E i \in 1..MaxIntervals : IntervalTick(i)
  \/ \E c \in BagToSet(checks), ok \in BOOLEAN : PollReturns(c, ok)
  \/ \E c \in BagToSet(checks), ok \in BOOLEAN : PhotosReturn(c, ok, FALSE)
  \/ \E ok \in BOOLEAN : SessionCreated(ok)
  \/ \E id \in 1..MaxSessions : UserPicks(id)

AuthSpec == PollingInit /\ [][AuthNext]_vars

\* C37: when signOut completes, isAuthenticated() is false, the Google access
\* token and pickerSessionManager are null and no polling interval is left,
\* whether the remote sign-out resolved or threw
C37_SignedOutOnBothPaths ==
  [][(\E ok \in BOOLEAN : SignOutSettles(ok)) =>
       /\ ~isAuthenticated'
       /\ ~googleToken'
       /\ ~pickerSessionManager'
       /\ intervals' = {}]_vars

\* the remote sign-out threw for a user whose manager was polling a session
C37_Witness ==
  /\ signOutEnded = "failed"
  /\ authPc = "idle"
  /\ currentSession # None
  /\ nextIntervalId > 1

----------------------------------------------------------------------------
(* settings.js: the sleep timer *)

\* the hours and minutes the times are drawn from: midnight, the defaults'
\* hours, the last hour; the ends and the middle of an hour
SampleHours == {0, 6, 21, 23}
SampleMinutes == {0, 29, 30, 59}

Times == [hour : SampleHours, minute : SampleMinutes]

timeToMinutes(hour, minute) == hour * 60 + minute

\* the comparison of a period that does not pass midnight, whatever the times
isTimeInSleepPeriodSameDay(current, sleep, wake) ==
  LET currentMinutes == timeToMinutes(current.hour, current.minute)
      sleepMinutes == timeToMinutes(sleep.hour, sleep.minute)
      wakeMinutes == timeToMinutes(wake.hour, wake.minute)
  IN currentMinutes >= sleepMinutes /\ currentMinutes < wakeMinutes

isTimeInSleepPeriod(current, sleep, wake) ==
  LET currentMinutes == timeToMinutes(current.hour, current.minute)
      sleepMinutes == timeToMinutes(sleep.hour, sleep.minute)
      wakeMinutes == timeToMinutes(wake.hour, wake.minute)
  IN IF sleepMinutes > wakeMinutes
       THEN currentMinutes >= sleepMinutes \/ currentMinutes < wakeMinutes
       ELSE currentMinutes >= sleepMinutes /\ currentMinutes < wakeMinutes

sleepFrame ==
  <<navVars, brokerVars, flightVars, pickerVars, sessionVars, startupVars, prefsVars,
    authVars, modalVars>>

\* the callback of the interval of initializeSleepTimer
PeriodicCheck ==
  /\ checkTurn' = ~checkTurn
  /\ requested' =
       IF ~sleepTimerEnabled THEN "none"
       ELSE IF isTimeInSleepPeriod(currentTime, sleepTime, wakeTime) /\ ~isAsleep
         THEN "sleep"
       ELSE IF ~isTimeInSleepPeriod(currentTime, sleepTime, wakeTime) /\ isAsleep
         THEN "wake"
       ELSE "none"
  /\ UNCHANGED <<sleepTime, wakeTime, currentTime, sleepTimerEnabled>>
  /\ UNCHANGED sleepFrame

\* the clock of the device moves on
ClockAdvances(time) ==
  /\ time # currentTime
  /\ currentTime' = time
  /\ UNCHANGED <<sleepTime, wakeTime, sleepTimerEnabled, requested, checkTurn>>
  /\ UNCHANGED sleepFrame

\* interface.sleepTimerEnabled is switched in the settings
SleepTimerSwitched ==
  /\ sleepTimerEnabled' = ~sleepTimerEnabled
  /\ UNCHANGED <<sleepTime, wakeTime, currentTime, requested, checkTurn>>
  /\ UNCHANGED sleepFrame

SleepNext ==
  \/ PeriodicCheck
  \/ \E time \in Times : ClockAdvances(time)
  \/ SleepTimerSwitched
  \/ \E sleeping \in BOOLEAN : SetSleepMode(sleeping)

\* the timer with any sleep, wake and current time
SleepTimerInit ==
  /\ NavInit /\ BrokerInit
  /\ FlightInit /\ PickerInit /\ SessionInit /\ StartupInit /\ PrefsInit
  /\ AuthInit /\ ModalInit
  /\ sleepTime \in Times
  /\ wakeTime \in Times
  /\ currentTime \in Times
  /\ sleepTimerEnabled = TRUE
  /\ requested = "none"
  /\ checkTurn = FALSE

SleepSpec == SleepTimerInit /\ [][SleepNext]_vars

\* the current time lies in [sleep, wake) on the 24-hour clock
InSleepInterval(current, sleep, wake) ==
  LET c == timeToMinutes(current.hour, current.minute)
      s == timeToMinutes(sleep.hour, sleep.minute)
      w == timeToMinutes(wake.hour, wake.minute)
  IN ((c - s + 1440) % 1440) < ((w - s + 1440) % 1440)

\* C38: isTimeInSleepPeriod is true exactly when the current time lies in
\* [sleepTime, wakeTime), past midnight when sleepTime is the later one; the
\* periodic check asks for sleep only inside the interval while not asleep and
\* for wake only outside it while asleep
C38_SleepPeriod ==
  [][/\ isTimeInSleepPeriod(currentTime, sleepTime, wakeTime)
          <=> InSleepInterval(currentTime, sleepTime, wakeTime)
     /\ PeriodicCheck =>
          /\ requested' = "sleep" =>
               InSleepInterval(currentTime, sleepTime, wakeTime) /\ ~isAsleep
          /\ requested' = "wake" =>
               ~InSleepInterval(currentTime, sleepTime, wakeTime) /\ isAsleep]_vars

\* sleep was asked for after midnight in a period that began the evening before
C38_Witness ==
  /\ requested = "sleep"
  /\ timeToMinutes(sleepTime.hour, sleepTime.minute)
       > timeToMinutes(wakeTime.hour, wakeTime.minute)
  /\ timeToMinutes(currentTime.hour, currentTime.minute)
       < timeToMinutes(wakeTime.hour, wakeTime.minute)

----------------------------------------------------------------------------
(* settings-d-pad-nav.js and settings-event-handler.js: the keys of the
   settings modal *)

Max(a, b) == IF a >= b THEN a ELSE b

\* the navigation as it is
Modal ==
  [focusIndex |-> focusIndex, focusableElements |-> focusableElements,
   collapsedGroups |-> collapsedGroups, currentTab |-> currentTab,
   isEditingText |-> isEditingText, activeElement |-> activeElement,
   blurListeners |-> blurListeners]

NoElement == [kind |-> "none", id |-> "", type |-> "none"]

\* this.focusableElements[this.focusIndex], undefined out of range
elementAt(m) ==
  IF m.focusIndex + 1 \in 1..Len(m.focusableElements)
    THEN m.focusableElements[m.focusIndex + 1]
    ELSE NoElement

\* elements.indexOf(el), 0-based, -1 when absent
indexOf(elements, el) ==
  LET hits == {i \in 1..Len(elements) : elements[i] = el}
  IN IF hits = {} THEN -1 ELSE (CHOOSE i \in hits : \A j \in hits : i <= j) - 1

isTab(el) == el.kind = "tab"

\* findIndex(el => !el.classList.contains('tab-button')), -1 when absent
firstContentIndex(elements) ==
  LET hits == {i \in 1..Len(elements) : ~isTab(elements[i])}
  IN IF hits = {} THEN -1 ELSE (CHOOSE i \in hits : \A j \in hits : i <= j) - 1

updateFocusableElements(m) ==
  LET elements == focusable(dom, m.currentTab, m.collapsedGroups)
  IN [m EXCEPT !.focusableElements = elements,
               !.focusIndex = IF m.focusIndex >= Len(elements)
                                THEN Max(0, Len(elements) - 1)
                                ELSE m.focusIndex]

isOnTabs(m) == isTab(elementAt(m))

dpadMoveFocus(m, direction) ==
  [m EXCEPT !.focusIndex =
     Max(0, Min(Len(m.focusableElements) - 1, m.focusIndex + direction))]

moveFromTabsToContent(m) ==
  LET first == firstContentIndex(m.focusableElements)
  IN IF first # -1 THEN [m EXCEPT !.focusIndex = first] ELSE dpadMoveFocus(m, 1)

\* the tab after the last is the first, the tab before the first is the last
moveTabFocusAround(m, direction) ==
  LET tabs == SelectSeq(m.focusableElements, isTab)
      currentTabIndex == indexOf(tabs, elementAt(m))
  IN IF currentTabIndex # -1
       THEN LET newTabIndex == (currentTabIndex + direction + Len(tabs)) % Len(tabs)
            IN [m EXCEPT !.focusIndex = indexOf(m.focusableElements, tabs[newTabIndex + 1])]
       ELSE m

moveTabFocus(m, direction) ==
  LET tabs == SelectSeq(m.focusableElements, isTab)
      currentTabIndex == indexOf(tabs, elementAt(m))
  IN IF currentTabIndex # -1
       THEN LET newTabIndex == Max(0, Min(Len(tabs) - 1, currentTabIndex + direction))
            IN [m EXCEPT !.focusIndex = indexOf(m.focusableElements, tabs[newTabIndex + 1])]
       ELSE m

\* the groups the overlay has a title and a content for
groupsOf(d) == UNION {{d.panels[t][i] : i \in 1..Len(d.panels[t])} : t \in SettingsTabs}

toggleGroup(m, groupId) ==
  IF groupId \notin groupsOf(dom) THEN m
  ELSE updateFocusableElements(
         [m EXCEPT !.collapsedGroups = IF groupId \in @ THEN @ \ {groupId}
                                       ELSE @ \cup {groupId}])

switchTab(m, tabId) ==
  LET updated == updateFocusableElements([m EXCEPT !.currentTab = tabId])
      first == firstContentIndex(updated.focusableElements)
  IN [updated EXCEPT !.focusIndex = IF first # -1 THEN first ELSE 0]

\* the document's focus goes to an element: the one that had it gets a blur
\* event, and its clearEditingFlag listener runs and removes itself
focusOn(m, id) ==
  IF m.activeElement = id THEN m
  ELSE [m EXCEPT !.activeElement = id,
                 !.isEditingText = IF m.activeElement \in m.blurListeners THEN FALSE ELSE @,
                 !.blurListeners = @ \ {m.activeElement}]

activateFormControl(m, control) ==
  IF control.type \in {"text", "time", "number"}
    THEN [focusOn(m, control.id) EXCEPT !.isEditingText = TRUE,
                                        !.blurListeners = @ \cup {control.id}]
    ELSE focusOn(m, control.id)

activateCurrentElement(m) ==
  LET current == elementAt(m)
  IN CASE current.kind = "tab" -> switchTab(m, current.id)
       [] current.kind = "title" -> toggleGroup(m, current.id)
       [] current.kind = "control" -> activateFormControl(m, current)
       [] OTHER -> m

AllControls ==
  UNION {{ControlsOf(g)[i] : i \in 1..Len(ControlsOf(g))} :
           g \in {"theme", "sleep", "family-info"}}

\* the type of the element with an id, "none" for one that is no input
typeOf(id) ==
  IF \E c \in AllControls : c.id = id
    THEN (CHOOSE c \in AllControls : c.id = id).type
    ELSE "none"

\* no active element counts as a text input
isTextInputNever(m) == FALSE

\* activeElement.type is 'text', 'number' or 'time'
isTextInput(m) == typeOf(m.activeElement) \in {"text", "number", "time"}

textEditingKeys ==
  {"Backspace", "Delete", "ArrowLeft", "ArrowRight", "Home", "End", "Tab", " ", "Enter"}

\* the keys pressed: the D-pad, Enter and Escape, two editing keys, a
\* character, and a key the navigation does not know
Keys ==
  {"ArrowUp", "ArrowDown", "ArrowLeft", "ArrowRight", "Enter", "Escape", "Backspace",
   "Tab", "a", "PageUp"}

\* key.length === 1
isSingleChar(key) == key \in {"a", " "}

keyResult(m, handled, cancels) == [m |-> m, handled |-> handled, cancels |-> cancels]

\* handleKeyPress: the navigation after the key, what it returns, and the
\* calls of callbacks.onCancel
handleKeyPress(m, key) ==
  LET editing == isTextInput(m) /\ m.isEditingText
  IN IF editing /\ (key \in textEditingKeys \/ isSingleChar(key))
       THEN keyResult(m, FALSE, 0)
     ELSE IF editing /\ key \in {"ArrowUp", "ArrowDown"}
       THEN keyResult(m, TRUE, 0)
     ELSE IF editing /\ key = "Escape"
       THEN keyResult([focusOn(m, "body") EXCEPT !.isEditingText = FALSE], TRUE, 0)
     ELSE CASE key = "ArrowUp" -> keyResult(dpadMoveFocus(m, -1), TRUE, 0)
            [] key = "ArrowDown" ->
                 keyResult(IF isOnTabs(m) THEN moveFromTabsToContent(m)
                           ELSE dpadMoveFocus(m, 1), TRUE, 0)
            [] key = "ArrowLeft" ->
                 IF isOnTabs(m) THEN keyResult(moveTabFocus(m, -1), TRUE, 0)
                 ELSE keyResult(m, FALSE, 0)
            [] key = "ArrowRight" ->
                 IF isOnTabs(m) THEN keyResult(moveTabFocus(m, 1), TRUE, 0)
                 ELSE keyResult(m, FALSE, 0)
            [] key = "Enter" -> keyResult(activateCurrentElement(m), TRUE, 0)
            [] key = "Escape" -> keyResult(m, TRUE, 1)
            [] OTHER -> keyResult(m, FALSE, 0)

modalFrame ==
  <<navVars, brokerVars, flightVars, pickerVars, sessionVars, startupVars, prefsVars,
    authVars, sleepVars>>

\* the navigation becomes m
Becomes(m) ==
  /\ focusIndex' = m.focusIndex
  /\ focusableElements' = m.focusableElements
  /\ collapsedGroups' = m.collapsedGroups
  /\ currentTab' = m.currentTab
  /\ isEditingText' = m.isEditingText
  /\ activeElement' = m.activeElement
  /\ blurListeners' = m.blurListeners
  /\ dom' = dom
  /\ UNCHANGED modalFrame

\* settingsManager.keydownHandler: a key while the modal is open; onCancel
\* closes the modal
KeyDown(key) ==
  /\ isVisible
  /\ LET result == handleKeyPress(Modal, key)
     IN /\ Becomes(result.m)
        /\ lastKey' = [key |-> key, handled |-> result.handled, cancels |-> result.cancels]
        /\ isVisible' = (result.cancels = 0)

\* a click on a tab button
ClickTab(tabId) ==
  /\ isVisible
  /\ \E i \in 1..Len(dom.tabs) : dom.tabs[i] = tabId
  /\ Becomes(switchTab(Modal, tabId))
  /\ lastKey' = NoKey
  /\ UNCHANGED isVisible

\* a click on a group title of the active panel
ClickGroup(groupId) ==
  /\ isVisible
  /\ \E i \in 1..Len(dom.panels[currentTab]) : dom.panels[currentTab][i] = groupId
  /\ Becomes(toggleGroup(Modal, groupId))
  /\ lastKey' = NoKey
  /\ UNCHANGED isVisible

\* the user or the browser moves the document's focus to a control that is
\* shown, or away from all of them
FocusMoves(id) ==
  /\ isVisible
  /\ id # activeElement
  /\ \/ id = "body"
     \/ \E i \in 1..Len(focusableElements) :
          focusableElements[i].kind = "control" /\ focusableElements[i].id = id
  /\ Becomes(focusOn(Modal, id))
  /\ lastKey' = NoKey
  /\ UNCHANGED isVisible

\* the modal is opened again: a new SimplifiedNavigation over a new overlay
Reopen ==
  /\ ~isVisible
  /\ Becomes([focusIndex |-> 0,
              focusableElements |-> focusable(dom, "display",
                                              {"theme", "sleep", "family-info"}),
              collapsedGroups |-> {"theme", "sleep", "family-info"},
              currentTab |-> "display", isEditingText |-> FALSE,
              activeElement |-> "body", blurListeners |-> {}])
  /\ lastKey' = NoKey
  /\ isVisible' = TRUE

ModalNext ==
  \/ \E key \in Keys : KeyDown(key)
  \/ \E tabId \in SettingsTabs : ClickTab(tabId)
  \/ \E groupId \in {"theme", "sleep", "family-info"} : ClickGroup(groupId)
  \/ \E id \in {c.id : c \in AllControls} \cup {"body"} : FocusMoves(id)
  \/ Reopen

\* the modal over any of the overlays
ModalSpecInit ==
  /\ NavInit /\ BrokerInit
  /\ FlightInit /\ PickerInit /\ SessionInit /\ StartupInit /\ PrefsInit
  /\ AuthInit /\ SleepInit
  /\ \E d \in Doms : Constructed(d)

ModalSpec == ModalSpecInit /\ [][ModalNext]_vars

FocusValid(index, elements) ==
  IF elements = <<>> THEN index = 0 ELSE index \in 0..(Len(elements) - 1)

\* C39: focusIndex is a valid index into focusableElements, 0 when there are
\* none; ArrowLeft and ArrowRight change the focus only from a tab, to the tab
\* before or after it, without wrapping around
C39_FocusIndexValid ==
  [][/\ FocusValid(focusIndex, focusableElements)
     /\ FocusValid(focusIndex', focusableElements')
     /\ (lastKey'.key \in {"ArrowLeft", "ArrowRight"} /\ focusIndex' # focusIndex) =>
          /\ isOnTabs(Modal)
          /\ isTab(focusableElements'[focusIndex' + 1])
          /\ focusIndex' = focusIndex + (IF lastKey'.key = "ArrowLeft" THEN -1 ELSE 1)]_vars

\* ArrowRight has moved the focus to the second tab
C39_Witness ==
  /\ lastKey.key = "ArrowRight"
  /\ lastKey.handled
  /\ focusIndex = 1
  /\ isTab(focusableElements[2])

\* a text, number or time input is being edited
Editing == isEditingText /\ typeOf(activeElement) \in {"text", "number", "time"}

\* C40: while an input is being edited ArrowUp and ArrowDown are consumed and
\* leave focusIndex alone, Escape ends the editing without onCancel, and the
\* other editing keys are left to the browser; outside editing Escape calls
\* onCancel once
C40_EditingKeys ==
  [][lastKey'.key # "none" =>
       /\ (Editing /\ lastKey'.key \in {"ArrowUp", "ArrowDown"}) =>
            lastKey'.handled /\ focusIndex' = focusIndex /\ lastKey'.cancels = 0
       /\ (Editing /\ lastKey'.key = "Escape") =>
            lastKey'.handled /\ ~isEditingText' /\ lastKey'.cancels = 0
       /\ (Editing /\ lastKey'.key \in textEditingKeys \cup {"a"}) =>
            /\ ~lastKey'.handled
            /\ lastKey'.cancels = 0
            /\ UNCHANGED <<focusIndex, isEditingText, activeElement>>
       /\ (~Editing /\ lastKey'.key = "Escape") => lastKey'.cancels = 1]_vars

\* Escape has ended the editing of an input and the modal is still open
C40_Witness ==
  /\ lastKey = [key |-> "Escape", handled |-> TRUE, cancels |-> 0]
  /\ ~isEditingText
  /\ isVisible
  /\ elementAt(Modal).kind = "control"

====
